---- MODULE Spec2Model ----
(***************************************************************************)
(* A model of the VidBrain video-analysis backend (src/backend):           *)
(*   - the POST /analyze request: extract_all followed by                  *)
(*     classify_with_fallback (specification Spec);                        *)
(*   - the three category processors, used stand-alone as the test         *)
(*     scripts use them (specification SpecProc).                          *)
(*                                                                         *)
(* Confidences are rationals in the code.  Here a confidence is an integer *)
(* number of 1/300ths, so that score / 15 (= 20 * score units), 0.3, 0.5,  *)
(* 0.6, 0.7 and 1.0 are all exact.                                         *)
(*                                                                         *)
(* A Python value that may be absent is the string NONE when absent.       *)
(***************************************************************************)
EXTENDS Integers, Sequences, FiniteSets, TLC

NONE == "<none>"

Min(a, b) == IF a <= b THEN a ELSE b

Range(s) == { s[i] : i \in DOMAIN s }

(***************************************************************************)
(* Strings.  `kw in text` of Python is substring search; str.lower() maps  *)
(* the upper-case letters to lower case and leaves the rest alone.         *)
(***************************************************************************)
IsSubstring(kw, text) ==
    \E i \in 1..(Len(text) - Len(kw) + 1) : SubSeq(text, i, i + Len(kw) - 1) = kw

UpperToLower ==
    ( "A" :> "a" @@ "B" :> "b" @@ "C" :> "c" @@ "D" :> "d" @@ "E" :> "e"
   @@ "F" :> "f" @@ "G" :> "g" @@ "H" :> "h" @@ "I" :> "i" @@ "J" :> "j"
   @@ "K" :> "k" @@ "L" :> "l" @@ "M" :> "m" @@ "N" :> "n" @@ "O" :> "o"
   @@ "P" :> "p" @@ "Q" :> "q" @@ "R" :> "r" @@ "S" :> "s" @@ "T" :> "t"
   @@ "U" :> "u" @@ "V" :> "v" @@ "W" :> "w" @@ "X" :> "x" @@ "Y" :> "y"
   @@ "Z" :> "z" )

LowerChar(c) == IF c \in DOMAIN UpperToLower THEN UpperToLower[c] ELSE c

RECURSIVE lower(_)
lower(s) ==
    IF Len(s) = 0 THEN ""
    ELSE IF Len(s) = 1 THEN LowerChar(s)
    ELSE LET half == Len(s) \div 2
         IN  lower(SubSeq(s, 1, half)) \o lower(SubSeq(s, half + 1, Len(s)))

\* s[:n]
Prefix(s, n) == SubSeq(s, 1, Min(n, Len(s)))

\* A variant for which no string is true.
NeverTruthy(s) == FALSE

\* Python's `a or b` on optional strings: the first that is neither None nor "".
Truthy(s) == s /= NONE /\ s /= ""

OrElse(a, b) == IF Truthy(a) THEN a ELSE b

(***************************************************************************)
(* models/schemas.py                                                       *)
(***************************************************************************)
VideoCategory ==
    { "movie_list", "song_list", "comedy", "recipe", "education",
      "product_review", "travel", "news", "fitness", "podcast", "tutorial",
      "gaming", "vlog", "unknown" }

\* confidence: float = Field(..., ge=0.0, le=1.0), in units of 1/300
ConfMin == 0
ConfMax == 300

(***************************************************************************)
(* services/classifier.py: rule_based_classify                             *)
(***************************************************************************)
RuleOrder ==
    << "movie_list", "song_list", "comedy", "recipe", "education",
       "product_review", "gaming", "vlog", "fitness", "travel", "podcast",
       "tutorial" >>

rules ==
    ( "movie_list" :>
        [strong |-> << "top movies", "best movies", "must watch movies", "movie list", "films you" >>,
         medium |-> << "movies of 20", "greatest films", "movie ranking", "film ranking" >>,
         weak   |-> << "movies", "cinema", "film" >>]
   @@ "song_list" :>
        [strong |-> << "top songs", "best songs", "hit songs", "song list", "music compilation" >>,
         medium |-> << "songs of 20", "playlist", "greatest hits", "music ranking" >>,
         weak   |-> << "songs", "music", "hits" >>]
   @@ "comedy" :>
        [strong |-> << "stand up", "standup", "comedy special", "comedian" >>,
         medium |-> << "comedy", "funny", "sketch", "skit" >>,
         weak   |-> << "laugh", "humor", "joke" >>]
   @@ "recipe" :>
        [strong |-> << "recipe", "how to cook", "cooking tutorial", "how to make" >>,
         medium |-> << "cooking", "baking", "ingredients", "prepare" >>,
         weak   |-> << "food", "kitchen", "meal" >>]
   @@ "education" :>
        [strong |-> << "tutorial", "how to", "learn", "explained", "course" >>,
         medium |-> << "education", "lecture", "teaching", "lesson" >>,
         weak   |-> << "guide", "tips", "knowledge" >>]
   @@ "product_review" :>
        [strong |-> << "review", "unboxing", "vs comparison", "hands on" >>,
         medium |-> << "product", "test", "comparison" >>,
         weak   |-> << "worth it", "should you buy" >>]
   @@ "gaming" :>
        [strong |-> << "gameplay", "walkthrough", "let's play", "gaming" >>,
         medium |-> << "playthrough", "game", "stream" >>,
         weak   |-> << "playing", "gamer" >>]
   @@ "vlog" :>
        [strong |-> << "vlog", "day in my life", "what i eat in a day" >>,
         medium |-> << "daily vlog", "my day", "come with me" >>,
         weak   |-> << "lifestyle", "routine" >>]
   @@ "fitness" :>
        [strong |-> << "workout", "exercise", "fitness routine" >>,
         medium |-> << "training", "gym", "muscle" >>,
         weak   |-> << "health", "fit" >>]
   @@ "travel" :>
        [strong |-> << "travel vlog", "travel guide", "things to do in" >>,
         medium |-> << "visit", "destination", "trip" >>,
         weak   |-> << "travel", "vacation" >>]
   @@ "podcast" :>
        [strong |-> << "podcast", "interview with", "ep ", "episode" >>,
         medium |-> << "conversation", "discussion", "talk" >>,
         weak   |-> << "chat" >>]
   @@ "tutorial" :>
        [strong |-> << "tutorial", "how to", "step by step" >>,
         medium |-> << "guide", "learn", "diy" >>,
         weak   |-> << "tips", "tricks" >>] )

\* weights of the three tiers
WeightStrong == 5
WeightMedium == 2
WeightWeak == 1

\* transcript = (captions or transcript or "").lower()[:1000]
TranscriptCut == 1000

\* confidence = min(0.6, best_score / 15); 0.6 is 180 units, 1/15 is 20 units
RuleCap == 180
RuleUnit == 20
\* confidence of the no-keyword result, 0.3
RuleUnknownConf == 90

\* A variant that counts every occurrence of a keyword.
HitsOccurrences(kws, text) ==
    LET Occurrences(kw) ==
            Cardinality({ p \in 1..(Len(text) - Len(kw) + 1) : SubSeq(text, p, p + Len(kw) - 1) = kw })
        sum[i \in 0..Len(kws)] == IF i = 0 THEN 0 ELSE sum[i - 1] + Occurrences(kws[i])
    IN  sum[Len(kws)]

\* sum(w for kw in kws if kw in text)
Hits(kws, text) == Cardinality({ i \in DOMAIN kws : IsSubstring(kws[i], text) })

SearchText(rec) ==
    lower(rec.title) \o " " \o lower(rec.description) \o " "
        \o Prefix(lower(OrElse(rec.captions, OrElse(rec.transcript, ""))), TranscriptCut)

Score(cat, text) ==
    WeightStrong * Hits(rules[cat].strong, text)
    + WeightMedium * Hits(rules[cat].medium, text)
    + WeightWeak * Hits(rules[cat].weak, text)

Scores(text) == [ i \in DOMAIN RuleOrder |-> Score(RuleOrder[i], text) ]

MaxScore(sc) == CHOOSE m \in Range(sc) : \A x \in Range(sc) : x <= m

\* A variant that takes the last key with the maximum.
BestIndexLast(sc) ==
    CHOOSE i \in DOMAIN sc :
        /\ sc[i] = MaxScore(sc)
        /\ \A j \in DOMAIN sc : sc[j] = MaxScore(sc) => j <= i

\* max(scores, key=scores.get): the first key, in insertion order, with the maximum
BestIndex(sc) ==
    CHOOSE i \in DOMAIN sc :
        /\ sc[i] = MaxScore(sc)
        /\ \A j \in DOMAIN sc : sc[j] = MaxScore(sc) => i <= j

\* sorted(scores.items(), key=lambda x: x[1], reverse=True) is stable: the
\* position of index i is the number of entries that sort before it.
SortedPos(sc, i) ==
    1 + Cardinality({ j \in DOMAIN sc : sc[j] > sc[i] \/ (sc[j] = sc[i] /\ j < i) })

SortedIndex(sc, p) == CHOOSE i \in DOMAIN sc : SortedPos(sc, i) = p

\* A variant that takes sorted_categories[0:2].
AlternativesFromFirst(sc) ==
    LET first  == SortedIndex(sc, 1)
        second == SortedIndex(sc, 2)
        a == IF sc[first] > 0 THEN << RuleOrder[first] >> ELSE << >>
        b == IF sc[second] > 0 THEN << RuleOrder[second] >> ELSE << >>
    IN  a \o b

\* [cat.value for cat, score in sorted_categories[1:3] if score > 0]
Alternatives(sc) ==
    LET second == SortedIndex(sc, 2)
        third  == SortedIndex(sc, 3)
        a == IF sc[second] > 0 THEN << RuleOrder[second] >> ELSE << >>
        b == IF sc[third] > 0 THEN << RuleOrder[third] >> ELSE << >>
    IN  a \o b

\* A variant that answers NEWS for a text that has the word and no keyword.
rule_based_classify_news(rec) ==
    LET sc == Scores(SearchText(rec))
        best == BestIndex(sc)
    IN  IF MaxScore(sc) = 0
        THEN [video_id |-> rec.video_id,
              category |-> IF IsSubstring("news", SearchText(rec)) THEN "news" ELSE "unknown",
              confidence |-> RuleUnknownConf,
              sub_category |-> NONE,
              reasoning |-> "No matching keywords found in rule-based classification",
              alternative_categories |-> << >>,
              model_used |-> "rule-based",
              keyword_score |-> 0]
        ELSE [video_id |-> rec.video_id,
              category |-> RuleOrder[best],
              confidence |-> Min(RuleCap, RuleUnit * sc[best]),
              sub_category |-> NONE,
              \* f"Rule-based classification (keyword score: {best_score})":
              \* keyword_score is the number the text carries
              reasoning |-> "Rule-based classification (keyword score: N)",
              alternative_categories |-> Alternatives(sc),
              model_used |-> "rule-based",
              keyword_score |-> sc[best]]

rule_based_classify(rec) ==
    LET sc == Scores(SearchText(rec))
        best == BestIndex(sc)
    IN  IF MaxScore(sc) = 0
        THEN [video_id |-> rec.video_id,
              category |-> "unknown",
              confidence |-> RuleUnknownConf,
              sub_category |-> NONE,
              reasoning |-> "No matching keywords found in rule-based classification",
              alternative_categories |-> << >>,
              model_used |-> "rule-based",
              keyword_score |-> 0]
        ELSE [video_id |-> rec.video_id,
              category |-> RuleOrder[best],
              confidence |-> Min(RuleCap, RuleUnit * sc[best]),
              sub_category |-> NONE,
              \* f"Rule-based classification (keyword score: {best_score})":
              \* keyword_score is the number the text carries
              reasoning |-> "Rule-based classification (keyword score: N)",
              alternative_categories |-> Alternatives(sc),
              model_used |-> "rule-based",
              keyword_score |-> sc[best]]

(***************************************************************************)
(* utils/video_utils.py: extract_video_id                                  *)
(* A call either returns a value or raises: [raised, exc, value].          *)
(***************************************************************************)
Return(v) == [raised |-> FALSE, exc |-> NONE, value |-> v]

Raise(e) == [raised |-> TRUE, exc |-> e, value |-> NONE]

\* [a-zA-Z0-9_-]
IdAlphabet ==
    { "a", "b", "c", "d", "e", "f", "g", "h", "i", "j", "k", "l", "m",
      "n", "o", "p", "q", "r", "s", "t", "u", "v", "w", "x", "y", "z",
      "A", "B", "C", "D", "E", "F", "G", "H", "I", "J", "K", "L", "M",
      "N", "O", "P", "Q", "R", "S", "T", "U", "V", "W", "X", "Y", "Z",
      "0", "1", "2", "3", "4", "5", "6", "7", "8", "9", "_", "-" }

\* {11}
IdLen == 11

Whitespace == { " ", "\t", "\n", "\r" }

CharAt(s, i) == SubSeq(s, i, i)

AllIdChars(s) == \A i \in 1..Len(s) : CharAt(s, i) \in IdAlphabet

\* str.strip()
RECURSIVE LStrip(_)
LStrip(s) ==
    IF Len(s) > 0 /\ CharAt(s, 1) \in Whitespace
    THEN LStrip(SubSeq(s, 2, Len(s)))
    ELSE s

RECURSIVE RStrip(_)
RStrip(s) ==
    IF Len(s) > 0 /\ CharAt(s, Len(s)) \in Whitespace
    THEN RStrip(SubSeq(s, 1, Len(s) - 1))
    ELSE s

Strip(s) == LStrip(RStrip(s))

\* the least element of a non-empty set of integers
Least(S) == CHOOSE i \in S : \A j \in S : i <= j

\* index of the first occurrence of the one-character string c in s, 0 if none
IndexOf(s, c) ==
    LET hits == { i \in 1..Len(s) : CharAt(s, i) = c }
    IN  IF hits = {} THEN 0 ELSE Least(hits)

\* re.search(marker + r'([a-zA-Z0-9_-]{11})', url): group 1 of the leftmost
\* match, NONE when there is no match
SearchId(marker, url) ==
    LET n == Len(marker)
        hits == { i \in 1..(Len(url) - n - IdLen + 1) :
                    /\ SubSeq(url, i, i + n - 1) = marker
                    /\ AllIdChars(SubSeq(url, i + n, i + n + IdLen - 1)) }
    IN  IF hits = {} THEN NONE
        ELSE SubSeq(url, Least(hits) + n, Least(hits) + n + IdLen - 1)

\* urlparse(url).query: what follows the first "?" of the part before the
\* first "#"
UrlQuery(url) ==
    LET h == IndexOf(url, "#")
        nofrag == IF h = 0 THEN url ELSE SubSeq(url, 1, h - 1)
        q == IndexOf(nofrag, "?")
    IN  IF q = 0 THEN "" ELSE SubSeq(nofrag, q + 1, Len(nofrag))

\* the "&"-separated fields of a query string, in order
RECURSIVE SplitAmp(_)
SplitAmp(q) ==
    LET a == IndexOf(q, "&")
    IN  IF a = 0 THEN << q >>
        ELSE << SubSeq(q, 1, a - 1) >> \o SplitAmp(SubSeq(q, a + 1, Len(q)))

\* urllib's unquote of a query value: "+" is a space and %XX is the byte XX.
\* The escapes decoded here are those of the characters the model's URLs use.
PercentTable ==
    ( "%0A" :> "\n" @@ "%0a" :> "\n" @@ "%20" :> " " @@ "%2D" :> "-"
   @@ "%2d" :> "-" @@ "%5F" :> "_" @@ "%5f" :> "_" )

RECURSIVE Unquote(_)
Unquote(s) ==
    IF Len(s) = 0 THEN ""
    ELSE IF CharAt(s, 1) = "+" THEN " " \o Unquote(SubSeq(s, 2, Len(s)))
    ELSE IF Len(s) >= 3 /\ SubSeq(s, 1, 3) \in DOMAIN PercentTable
         THEN PercentTable[SubSeq(s, 1, 3)] \o Unquote(SubSeq(s, 4, Len(s)))
    ELSE CharAt(s, 1) \o Unquote(SubSeq(s, 2, Len(s)))

\* parse_qs(query)['v'][0]: the value of the first field named v whose value
\* is not blank (blank values are dropped); NONE when 'v' is not a key
QueryV(query) ==
    LET fields == SplitAmp(query)
        hits == { i \in DOMAIN fields :
                    /\ Len(fields[i]) > 2
                    /\ SubSeq(fields[i], 1, 2) = "v=" }
    IN  IF hits = {} THEN NONE
        ELSE Unquote(SubSeq(fields[Least(hits)], 3, Len(fields[Least(hits)])))

\* re.match(r'^[a-zA-Z0-9_-]{11}$', s): in Python "$" also matches just
\* before a newline that ends the string
MatchesIdPattern(s) ==
    \/ Len(s) = IdLen /\ AllIdChars(s)
    \/ Len(s) = IdLen + 1 /\ AllIdChars(SubSeq(s, 1, IdLen)) /\ CharAt(s, IdLen + 1) = "\n"

extract_video_id(raw) ==
    IF raw = "" THEN Raise("ValueError")
    ELSE
    LET u == Strip(raw)
        p1 == IF IsSubstring("youtu.be/", u) THEN SearchId("youtu.be/", u) ELSE NONE
        p2 == IF IsSubstring("/shorts/", u) THEN SearchId("/shorts/", u) ELSE NONE
        p3 == IF IsSubstring("/embed/", u) THEN SearchId("/embed/", u) ELSE NONE
        p4 == IF IsSubstring("/v/", u) THEN SearchId("/v/", u) ELSE NONE
        v  == IF IsSubstring("youtube.com", u) THEN QueryV(UrlQuery(u)) ELSE NONE
    IN  IF p1 /= NONE THEN Return(p1)
        ELSE IF p2 /= NONE THEN Return(p2)
        ELSE IF p3 /= NONE THEN Return(p3)
        ELSE IF p4 /= NONE THEN Return(p4)
        ELSE IF v /= NONE /\ MatchesIdPattern(v) THEN Return(v)
        ELSE Raise("ValueError")

\* validate_video_id
validate_video_id(s) == s /= NONE /\ s /= "" /\ MatchesIdPattern(s)

(***************************************************************************)
(* Bounds of the model and the inputs it draws.                            *)
(***************************************************************************)
\* most key frames extract_key_frames writes in a run of the model
MaxFrames == 1

\* most comments the comment provider returns in a run of the model
MaxComments == 1

Urls ==
    { " https://www.youtube.com/watch?t=1&v=dQw4w9WgXcQ",
      "https://www.youtube.com/watch?v=tooShort",
      "https://youtu.be/abc",
      "https://vimeo.com/76979871",
      "" }

Titles == { "Top Movies of 2024", "zzz" }

CaptionTexts == { "How to cook pasta" }

TranscriptTexts == { "welcome to my daily vlog" }

\* the files of a request, all named after the video ID alone
FramePath(i) == "/tmp/vidbrain/ID/frame_" \o ToString(i) \o ".jpg"

AUDIO == "/tmp/vidbrain/ID.mp3"

VIDEO == "/tmp/vidbrain/ID.mp4"

(***************************************************************************)
(* State.                                                                  *)
(***************************************************************************)
VARIABLES
    pc,            \* where the request (Spec) or the processor run (SpecProc) is
    url,           \* request.youtube_url
    google_key,    \* GOOGLE_API_KEY is set
    youtube_key,   \* YOUTUBE_API_KEY is set
    video_id,      \* extract_all: video_id
    metadata,      \* extract_all: metadata
    captions,      \* extract_all: captions
    transcript,    \* extract_all: transcript
    audio_path,    \* extract_all: audio_path
    video_path,    \* extract_all: video_path
    key_frames,    \* extract_all: key_frames
    comments,      \* extract_all: comments
    outcome,       \* what each collector met: "notrun", "ok" or "failed"
    files,         \* the files under /tmp/vidbrain
    downloaded,    \* the audio and video files this request has downloaded
    unlink_raises, \* the files whose unlink() raises when cleanup calls it
    trace,         \* the calls made so far, in order
    model_calls,   \* the generate_content calls made so far, in order
    extraction,    \* the ExtractionResult extract_all returned
    last,          \* what the latest AI rung did
    result,        \* the ClassificationResult classify_with_fallback returned
    response       \* the HTTP response of POST /analyze

pipeVars ==
    << pc, url, google_key, youtube_key, video_id, metadata, captions,
       transcript, audio_path, video_path, key_frames, comments, outcome,
       files, downloaded, unlink_raises, trace, model_calls, extraction, last,
       result, response >>

\* The state of a processor's process() call.
VARIABLES
    proc,            \* the processor in use: "recipe", "movie_list" or "default"
    ppc,             \* where its process() call is
    tmdb_key,        \* TMDB_API_KEY is set
    record,          \* the ExtractionResult given to process()
    raw_movies,      \* MovieListProcessor.process: raw_movies
    enriched_movies, \* MovieListProcessor.process: enriched_movies
    chunk_start,     \* MovieListProcessor.process: i, the start of the chunk
    lookups,         \* the enrich_movie_with_tmdb task of each raw movie
    model_reply,     \* what the model did when process() called it
    output           \* what process() returned

procVars ==
    << proc, ppc, tmdb_key, record, raw_movies, enriched_movies, chunk_start,
       lookups, model_reply, output >>

\* One call of VideoClassifier._parse_response taken alone.
VARIABLES
    parse_args,      \* the response, the classifier's model_name, the video ID
    parsed           \* what the call returned or raised

parseVars == << parse_args, parsed >>

NoCall == [response |-> NONE, model_name |-> NONE, video_id |-> NONE]

NotParsed == [raised |-> FALSE, exc |-> "not called", value |-> NONE]

ParseDone == parsed.exc /= "not called"

ParseIdle ==
    /\ parse_args = NoCall
    /\ parsed = NotParsed

\* The process's transcription model and the calls of get_whisper_model.
VARIABLES
    WHISPER_AVAILABLE,  \* the whisper package was imported
    whisper_model,      \* the module's _whisper_model
    load_log,           \* the whisper.load_model calls made, with their outcome
    whisper_returned    \* what each get_whisper_model call returned or raised

\* _whisper_model = None
NoHandle == [name |-> NONE, load |-> 0]

whisperVars == << WHISPER_AVAILABLE, whisper_model, load_log, whisper_returned >>

WhisperIdle ==
    /\ WHISPER_AVAILABLE = FALSE
    /\ whisper_model = NoHandle
    /\ load_log = << >>
    /\ whisper_returned = << >>

\* Two requests for the same video in flight together.
VARIABLES
    one_loop,   \* both requests are served by one event loop (one process)
    running,    \* the request the event loop is running, 0 when it is free
    req,        \* of each request: where extract_all is, and its local variables
    tmp_dir     \* the files in /tmp/vidbrain, which the requests share

pairVars == << one_loop, running, req, tmp_dir >>

PairIdle ==
    /\ one_loop = FALSE
    /\ running = 0
    /\ req = << >>
    /\ tmp_dir = {}

\* the state of the functions that are also run on their own
aloneVars == << parseVars, whisperVars, pairVars >>

AloneIdle == ParseIdle /\ WhisperIdle /\ PairIdle

NoOutcome ==
    [metadata |-> "notrun", exception |-> NONE, captions |-> "notrun", audio |-> "notrun", transcribe |-> "notrun",
     video |-> "notrun", frames |-> "notrun", comments |-> "notrun"]

NoLast == [rung |-> 0, reply |-> "none", raised |-> FALSE, confidence |-> 0]

NoMetadata == [video_id |-> NONE, title |-> NONE, description |-> NONE]

NoExtraction ==
    [video_id |-> NONE, title |-> NONE, description |-> NONE, captions |-> NONE,
     transcript |-> NONE, key_frame_paths |-> << >>, top_comments |-> << >>]

NoResult ==
    [video_id |-> NONE, category |-> NONE, confidence |-> 0, sub_category |-> NONE,
     reasoning |-> NONE, alternative_categories |-> << >>, model_used |-> NONE,
     keyword_score |-> 0]

NoResponse ==
    [status_code |-> 0, status |-> NONE, detail |-> NONE, category |-> NONE,
     metadata |-> NoMetadata, result |-> NoExtraction]

InitPipe ==
    /\ pc = "extract_video_id"
    /\ url \in Urls
    /\ google_key \in BOOLEAN
    /\ youtube_key \in BOOLEAN
    /\ video_id = NONE
    /\ metadata = NoMetadata
    /\ captions = NONE
    /\ transcript = NONE
    /\ audio_path = NONE
    /\ video_path = NONE
    /\ key_frames = << >>
    /\ comments = << >>
    /\ outcome = NoOutcome
    /\ files = {}
    /\ downloaded = {}
    /\ unlink_raises = {}
    /\ trace = << >>
    /\ model_calls = << >>
    /\ extraction = NoExtraction
    /\ last = NoLast
    /\ result = NoResult
    /\ response = NoResponse

(***************************************************************************)
(* routers/analyze.py: the except clauses of analyze_video                 *)
(***************************************************************************)
\* A variant that answers every exception with 500.
HTTPExceptionServerError(exc) ==
    [NoResponse EXCEPT !.status_code = 500, !.detail = "Analysis failed"]

HTTPException(exc) ==
    IF exc = "ValueError"
    THEN [NoResponse EXCEPT !.status_code = 400, !.detail = "Invalid YouTube URL"]
    ELSE IF exc = "YouTubeAPIError"
    THEN [NoResponse EXCEPT !.status_code = 500, !.detail = "YouTube API error"]
    ELSE [NoResponse EXCEPT !.status_code = 500, !.detail = "Analysis failed"]

(***************************************************************************)
(* services/youtube_extractor.py                                           *)
(***************************************************************************)
\* What the metadata provider answers.
MetadataReplies ==
    [kind : {"ok"}, title : Titles]
    \cup [kind : {"no_items", "http_403", "http_400", "http_500", "network", "malformed"},
          title : {NONE}]

get_metadata(key, id, reply) ==
    IF ~key THEN Raise("YouTubeAPIError")
    ELSE IF reply.kind = "http_403" THEN Raise("YouTubeAPIError")
    ELSE IF reply.kind = "http_400" THEN Raise("ValueError")
    ELSE IF reply.kind = "http_500" THEN Raise("YouTubeAPIError")
    ELSE IF reply.kind = "network" THEN Raise("YouTubeAPIError")
    \* raised inside the try block: `except Exception` turns both into YouTubeAPIError
    ELSE IF reply.kind = "no_items" THEN Raise("YouTubeAPIError")
    ELSE IF reply.kind = "malformed" THEN Raise("YouTubeAPIError")
    ELSE Return([video_id |-> id, title |-> reply.title, description |-> ""])

\* What running yt-dlp for the subtitles gives.
CaptionReplies ==
    [kind : {"vtt"}, text : CaptionTexts]
    \* a subtitle file whose only text lines are <c></c> tags
    \cup [kind : {"markup_only"}, text : {""}]
    \cup [kind : {"no_file", "empty_vtt", "timeout", "error"}, text : {NONE}]

get_captions(reply) == IF reply.kind \in {"vtt", "markup_only"} THEN reply.text ELSE NONE

\* what the caption fetch met: text, a file without text, or a failure
CaptionOutcome(reply) ==
    IF reply.kind = "vtt" THEN "ok" ELSE IF reply.kind = "markup_only" THEN "empty" ELSE "failed"

DownloadReplies == { "ok", "nonzero_exit", "no_file", "timeout", "error" }

\* download_audio / download_video: the path when yt-dlp wrote the file
download(reply, path) == IF reply = "ok" THEN path ELSE NONE

\* What Whisper gives for an audio file that exists.
TranscribeReplies ==
    [kind : {"text"}, text : TranscriptTexts]
    \cup [kind : {"empty", "no_whisper", "error"}, text : {NONE}]

transcribe_audio(path, fs, reply) ==
    IF path \notin fs THEN NONE
    ELSE IF reply.kind = "text" THEN reply.text
    ELSE NONE

\* What OpenCV gives for a video file that exists: so many frames, or a failure.
FrameReplies ==
    [kind : {"frames"}, n : 0..MaxFrames] \cup [kind : {"cannot_open", "error"}, n : {0}]

extract_key_frames(path, fs, reply) ==
    IF path \notin fs THEN << >>
    ELSE IF reply.kind = "frames" THEN [ i \in 1..reply.n |-> FramePath(i) ]
    ELSE << >>

\* What the comment provider answers.
CommentReplies ==
    [kind : {"ok"}, n : 0..MaxComments]
    \cup [kind : {"http_403", "http_500", "network", "malformed"}, n : {0}]

get_top_comments(key, reply) ==
    IF ~key THEN Raise("YouTubeAPIError")
    ELSE IF reply.kind = "ok" THEN Return([ i \in 1..reply.n |-> "comment" ])
    ELSE IF reply.kind = "http_403" THEN Return(<< >>)
    ELSE IF reply.kind = "malformed" THEN Return(<< >>)
    ELSE Raise("YouTubeAPIError")

(***************************************************************************)
(* extract_all, one action per step.  The request ends at once, with the   *)
(* response analyze_video makes of the exception, when a step raises.      *)
(***************************************************************************)
classVars == << model_calls, last, result >>

collectVars ==
    << metadata, captions, transcript, audio_path, video_path, key_frames, comments >>

fileVars == << files, downloaded, unlink_raises >>

\* Step 1: video_id = extract_video_id(youtube_url)
ExtractVideoId ==
    /\ pc = "extract_video_id"
    /\ trace' = Append(trace, "extract_video_id")
    /\ LET r == extract_video_id(url)
       IN  IF r.raised
           THEN /\ response' = HTTPException(r.exc)
                /\ pc' = "done"
                /\ UNCHANGED video_id
           ELSE /\ video_id' = r.value
                /\ pc' = "get_metadata"
                /\ UNCHANGED response
    /\ UNCHANGED << procVars, aloneVars >>
    /\ UNCHANGED << url, google_key, youtube_key, collectVars, outcome, fileVars,
                    extraction, classVars >>

\* what the metadata fetch met: no credential, or the provider's reply
MetadataOutcome(key, reply) == IF ~key THEN "no_key" ELSE reply.kind

\* Step 2: metadata = await get_metadata(video_id)
GetMetadata ==
    /\ pc = "get_metadata"
    /\ trace' = Append(trace, "get_metadata")
    /\ \E reply \in MetadataReplies :
         LET r == get_metadata(youtube_key, video_id, reply)
         IN  /\ outcome' = [outcome EXCEPT !.metadata = MetadataOutcome(youtube_key, reply),
                                           !.exception = r.exc]
             /\ IF r.raised
                THEN /\ response' = HTTPException(r.exc)
                     /\ pc' = "done"
                     /\ UNCHANGED metadata
                ELSE /\ metadata' = r.value
                     /\ pc' = "get_captions"
                     /\ UNCHANGED response
    /\ UNCHANGED << procVars, aloneVars >>
    /\ UNCHANGED << url, google_key, youtube_key, video_id, captions, transcript,
                    audio_path, video_path, key_frames, comments,
                    fileVars, extraction, classVars >>

\* A variant of step 3 that goes on to the audio download whatever the
\* captions are.
GetCaptionsThenAudio ==
    /\ pc = "get_captions"
    /\ trace' = Append(trace, "get_captions")
    /\ \E reply \in CaptionReplies :
         /\ captions' = get_captions(reply)
         /\ outcome' = [outcome EXCEPT !.captions = CaptionOutcome(reply)]
    /\ pc' = "download_audio"
    /\ UNCHANGED << procVars, aloneVars >>
    /\ UNCHANGED << url, google_key, youtube_key, video_id, metadata, transcript,
                    audio_path, video_path, key_frames, comments, fileVars,
                    extraction, classVars, response >>

\* Step 3: captions = get_captions(video_id), then `if not captions`
GetCaptions ==
    /\ pc = "get_captions"
    /\ trace' = Append(trace, "get_captions")
    /\ \E reply \in CaptionReplies :
         LET c == get_captions(reply)
         IN  /\ captions' = c
             /\ outcome' = [outcome EXCEPT !.captions = CaptionOutcome(reply)]
             /\ pc' = IF Truthy(c) THEN "download_video" ELSE "download_audio"
    /\ UNCHANGED << procVars, aloneVars >>
    /\ UNCHANGED << url, google_key, youtube_key, video_id, metadata, transcript,
                    audio_path, video_path, key_frames, comments, fileVars,
                    extraction, classVars, response >>

\* Step 4: audio_path = download_audio(video_id), then `if audio_path`
DownloadAudio ==
    /\ pc = "download_audio"
    /\ trace' = Append(trace, "download_audio")
    /\ \E reply \in DownloadReplies :
         LET p == download(reply, AUDIO)
         IN  /\ audio_path' = p
             /\ files' = IF reply = "ok" THEN files \cup {AUDIO} ELSE files
             /\ downloaded' = IF reply = "ok" THEN downloaded \cup {AUDIO} ELSE downloaded
             /\ outcome' = [outcome EXCEPT !.audio = IF reply = "ok" THEN "ok" ELSE "failed"]
             /\ pc' = IF p /= NONE THEN "transcribe_audio" ELSE "download_video"
    /\ UNCHANGED << procVars, aloneVars >>
    /\ UNCHANGED << url, google_key, youtube_key, video_id, metadata, captions,
                    transcript, video_path, key_frames, comments, unlink_raises,
                    extraction, classVars, response >>

\* Step 5: transcript = transcribe_audio(audio_path)
TranscribeAudio ==
    /\ pc = "transcribe_audio"
    /\ trace' = Append(trace, "transcribe_audio")
    /\ \E reply \in TranscribeReplies :
         LET t == transcribe_audio(audio_path, files, reply)
         IN  /\ transcript' = t
             /\ outcome' = [outcome EXCEPT !.transcribe = IF reply.kind = "text" THEN "ok" ELSE "failed"]
    /\ pc' = "download_video"
    /\ UNCHANGED << procVars, aloneVars >>
    /\ UNCHANGED << url, google_key, youtube_key, video_id, metadata, captions,
                    audio_path, video_path, key_frames, comments, fileVars,
                    extraction, classVars, response >>

\* Step 6, first half: video_path = download_video(video_id), then `if video_path`
DownloadVideo ==
    /\ pc = "download_video"
    /\ trace' = Append(trace, "download_video")
    /\ \E reply \in DownloadReplies :
         LET p == download(reply, VIDEO)
         IN  /\ video_path' = p
             /\ files' = IF reply = "ok" THEN files \cup {VIDEO} ELSE files
             /\ downloaded' = IF reply = "ok" THEN downloaded \cup {VIDEO} ELSE downloaded
             /\ outcome' = [outcome EXCEPT !.video = IF reply = "ok" THEN "ok" ELSE "failed"]
             /\ pc' = IF p /= NONE THEN "extract_key_frames" ELSE "get_top_comments"
    /\ UNCHANGED << procVars, aloneVars >>
    /\ UNCHANGED << url, google_key, youtube_key, video_id, metadata, captions,
                    transcript, audio_path, key_frames, comments, unlink_raises,
                    extraction, classVars, response >>

\* Step 6, second half: key_frames = extract_key_frames(video_path, 30)
ExtractKeyFrames ==
    /\ pc = "extract_key_frames"
    /\ trace' = Append(trace, "extract_key_frames")
    /\ \E reply \in FrameReplies :
         LET f == extract_key_frames(video_path, files, reply)
         IN  /\ key_frames' = f
             /\ files' = files \cup Range(f)
             /\ outcome' = [outcome EXCEPT !.frames = IF reply.kind = "frames" THEN "ok" ELSE "failed"]
    /\ pc' = "get_top_comments"
    /\ UNCHANGED << procVars, aloneVars >>
    /\ UNCHANGED << url, google_key, youtube_key, video_id, metadata, captions,
                    transcript, audio_path, video_path, comments, downloaded,
                    unlink_raises, extraction, classVars, response >>

\* A variant of step 7 without the try/except: what get_top_comments raises
\* leaves extract_all.
GetTopCommentsPropagating ==
    /\ pc = "get_top_comments"
    /\ trace' = Append(trace, "get_top_comments")
    /\ \E reply \in CommentReplies :
         LET r == get_top_comments(youtube_key, reply)
         IN  /\ outcome' = [outcome EXCEPT !.comments =
                                IF youtube_key /\ reply.kind = "ok" THEN "ok" ELSE "failed"]
             /\ IF r.raised
                THEN /\ response' = HTTPException(r.exc)
                     /\ pc' = "done"
                     /\ UNCHANGED comments
                ELSE /\ comments' = r.value
                     /\ pc' = "cleanup"
                     /\ UNCHANGED response
    /\ UNCHANGED << procVars, aloneVars >>
    /\ UNCHANGED << url, google_key, youtube_key, video_id, metadata, captions,
                    transcript, audio_path, video_path, key_frames, fileVars,
                    extraction, classVars >>

\* Step 7: comments = await get_top_comments(video_id, 20), inside try/except
GetTopComments ==
    /\ pc = "get_top_comments"
    /\ trace' = Append(trace, "get_top_comments")
    /\ \E reply \in CommentReplies :
         LET r == get_top_comments(youtube_key, reply)
         IN  /\ comments' = IF r.raised THEN << >> ELSE r.value
             /\ outcome' = [outcome EXCEPT !.comments =
                                IF youtube_key /\ reply.kind = "ok" THEN "ok" ELSE "failed"]
    /\ pc' = "cleanup"
    /\ UNCHANGED << procVars, aloneVars >>
    /\ UNCHANGED << url, google_key, youtube_key, video_id, metadata, captions,
                    transcript, audio_path, video_path, key_frames, fileVars,
                    extraction, classVars, response >>

\* A variant that removes the whole temporary directory.
CleanupDirectory(fs, apath, vpath, raises) == {}

\* The cleanup try block: the audio unlink, then the video unlink; an unlink
\* that raises ends the block.  `raises` is the set of files whose unlink raises.
CleanupFiles(fs, apath, vpath, raises) ==
    LET audioTried == apath /= NONE /\ apath \in fs
        audioRaised == audioTried /\ apath \in raises
        afterAudio == IF audioTried /\ ~audioRaised THEN fs \ {apath} ELSE fs
        videoTried == ~audioRaised /\ vpath /= NONE /\ vpath \in afterAudio
        videoRaised == videoTried /\ vpath \in raises
    IN  IF videoTried /\ ~videoRaised THEN afterAudio \ {vpath} ELSE afterAudio

\* return ExtractionResult(...)
ExtractionResult ==
    [video_id |-> video_id,
     title |-> metadata.title,
     description |-> metadata.description,
     captions |-> captions,
     transcript |-> transcript,
     key_frame_paths |-> key_frames,
     top_comments |-> comments]

\* Cleanup and the rest of extract_all; analyze_video goes on to classify.
Cleanup ==
    /\ pc = "cleanup"
    /\ trace' = Append(trace, "cleanup")
    /\ \E raises \in SUBSET (files \cap {AUDIO, VIDEO}) :
         /\ unlink_raises' = raises
         /\ files' = CleanupFiles(files, audio_path, video_path, raises)
    /\ extraction' = ExtractionResult
    /\ pc' = "attempt_1"
    /\ UNCHANGED << procVars, aloneVars >>
    /\ UNCHANGED << url, google_key, youtube_key, video_id, collectVars, outcome,
                    downloaded, classVars, response >>

(***************************************************************************)
(* services/classifier.py: VideoClassifier and classify_with_fallback      *)
(***************************************************************************)
PRIMARY_MODEL == "gemini-2.5-flash"

FALLBACK_MODEL == "gemini-2.5-pro"

\* a JSON field that the response does not have, and one that is null
MISSING == "<missing>"

NULL == "<null>"

Num(v) == [t |-> "num", v |-> v]

NotNum(t) == [t |-> t, v |-> 0]

List(l) == [t |-> "list", v |-> l]

NotList(t) == [t |-> t, v |-> << >>]

\* The confidences a response may state, in units of 1/300: each threshold,
\* the value just above it, both ends of [0, 1] and a value beyond each end.
ConfValues == { 0 - 30, 0, 150, 151, 180, 181, 210, 211, 300, 330 }

ConfInputs ==
    { Num(v) : v \in ConfValues } \cup { NotNum(MISSING), NotNum(NULL), NotNum("text") }

Object(cat, conf, why, alts) ==
    [kind |-> "object", fence |-> "none", category |-> cat, confidence |-> conf,
     reasoning |-> why, alternative_categories |-> alts]

NoObject == Object(MISSING, NotNum(MISSING), MISSING, NotList(MISSING))

\* What a generate_content call gives: an error of the API, or a text that is
\* no JSON, a JSON list, or a JSON object.
Responses ==
    { [NoObject EXCEPT !.kind = k] : k \in {"api_error", "bad_json", "json_list"} }
    \cup { Object(cat, conf, "because", List(<< "vlog" >>)) :
             cat \in {"recipe", "bogus", MISSING}, conf \in ConfInputs }
    \cup { Object("recipe", Num(300), why, List(<< >>)) : why \in {"", MISSING, NULL} }
    \cup { Object("recipe", Num(300), "because", alts) :
             alts \in { NotList(MISSING), NotList(NULL), List(<< "recipe", "vlog" >>) } }
    \cup { [Object("vlog", Num(300), "because", List(<< >>)) EXCEPT !.fence = f] :
             f \in {"json", "plain"} }

\* A variant whose default is just above the lowest threshold.
ConfDefaultAbove == 150 + 1

\* data.get("confidence", 0.5)
ConfDefault == 150

\* A variant of ClassificationResult whose confidence field has no bounds.
ClassificationResultUnbounded(r) ==
    IF r.reasoning = NULL THEN Raise("ValidationError")
    ELSE IF r.alternative_categories.t /= "list" THEN Raise("ValidationError")
    ELSE Return([r EXCEPT !.alternative_categories = r.alternative_categories.v])

\* ClassificationResult(...): pydantic rejects a confidence outside [0, 1], a
\* reasoning that is no string and alternatives that are no list
ClassificationResult(r) ==
    IF r.confidence < ConfMin \/ r.confidence > ConfMax THEN Raise("ValidationError")
    ELSE IF r.reasoning = NULL THEN Raise("ValidationError")
    ELSE IF r.alternative_categories.t /= "list" THEN Raise("ValidationError")
    ELSE Return([r EXCEPT !.alternative_categories = r.alternative_categories.v])

\* re.sub(r'^```json\s*', '', .) and re.sub(r'\s*```$', '', .): the wrapping left
\* around the body by the classifier's cleaning
StripFence(fence) == IF fence = "plain" THEN "open" ELSE "none"

\* A variant in which VideoCategory(category_str) is not guarded by the
\* try/except that falls back to UNKNOWN.
parse_response_strict(resp, model_name, rec) ==
    IF resp.kind = "bad_json" THEN Raise("ValueError")
    ELSE IF StripFence(resp.fence) /= "none" THEN Raise("ValueError")
    ELSE IF resp.kind = "json_list" THEN Raise("AttributeError")
    ELSE IF resp.category /= MISSING /\ resp.category \notin VideoCategory THEN Raise("ValueError")
    ELSE IF resp.confidence.t = "text" THEN Raise("ValueError")
    ELSE IF resp.confidence.t = NULL THEN Raise("TypeError")
    ELSE ClassificationResult(
           [video_id |-> rec.video_id,
            category |-> IF resp.category = MISSING THEN "unknown" ELSE resp.category,
            confidence |-> IF resp.confidence.t = MISSING THEN ConfDefault ELSE resp.confidence.v,
            sub_category |-> NONE,
            reasoning |-> IF resp.reasoning = MISSING THEN "No reasoning provided"
                          ELSE resp.reasoning,
            alternative_categories |->
                IF resp.alternative_categories.t = MISSING THEN List(<< >>)
                ELSE resp.alternative_categories,
            model_used |-> model_name,
            keyword_score |-> 0])

\* VideoClassifier._parse_response
parse_response(resp, model_name, rec) ==
    IF resp.kind = "bad_json" THEN Raise("ValueError")
    ELSE IF StripFence(resp.fence) /= "none" THEN Raise("ValueError")
    ELSE IF resp.kind = "json_list" THEN Raise("AttributeError")
    ELSE IF resp.confidence.t = "text" THEN Raise("ValueError")
    ELSE IF resp.confidence.t = NULL THEN Raise("TypeError")
    ELSE ClassificationResult(
           [video_id |-> rec.video_id,
            category |-> IF resp.category \in VideoCategory THEN resp.category ELSE "unknown",
            confidence |-> IF resp.confidence.t = MISSING THEN ConfDefault ELSE resp.confidence.v,
            sub_category |-> NONE,
            reasoning |-> IF resp.reasoning = MISSING THEN "No reasoning provided"
                          ELSE resp.reasoning,
            alternative_categories |->
                IF resp.alternative_categories.t = MISSING THEN List(<< >>)
                ELSE resp.alternative_categories,
            model_used |-> model_name,
            keyword_score |-> 0])

\* max_frames: int = 3
MaxFramesSent == 3

\* the frames classify_video attaches: of key_frame_paths[:max_frames], those
\* Image.open can load
FramesSent(rec, include_frames, fs) ==
    IF include_frames
    THEN { i \in 1..Min(MaxFramesSent, Len(rec.key_frame_paths)) : rec.key_frame_paths[i] \in fs }
    ELSE {}

\* A variant of classify_video without the `if not self.model` test.
classify_video_unguarded(has_key, model_name, rec, resp) ==
    IF resp.kind = "api_error" THEN Raise("APIError")
    ELSE parse_response(resp, model_name, rec)

\* VideoClassifier(model_name).classify_video(extraction, include_frames), the
\* model answering resp when it is called
classify_video(has_key, model_name, rec, resp) ==
    IF ~has_key THEN Raise("ValueError")
    ELSE IF resp.kind = "api_error" THEN Raise("APIError")
    ELSE parse_response(resp, model_name, rec)

\* what the model answered: no text (the call failed), a text that is no JSON,
\* a JSON list, or a JSON object whose "category" names a VideoCategory or not
ReplyClass(resp) ==
    IF resp.kind /= "object" THEN resp.kind
    ELSE IF StripFence(resp.fence) /= "none" THEN "bad_json"
    ELSE IF resp.category = MISSING THEN "no_category"
    ELSE IF resp.category \in VideoCategory THEN "known_category"
    ELSE "other_category"

\* the acceptance thresholds of the four attempts: 0.7, 0.6, 0.7, 0.5
Threshold1 == 210
Threshold2 == 180
Threshold3 == 210
Threshold4 == 150

\* A variant that accepts a confidence equal to the threshold.
AcceptsAtThreshold(r, threshold) == ~r.raised /\ r.value.confidence >= threshold

Accepts(r, threshold) == ~r.raised /\ r.value.confidence > threshold

\* One try block of classify_with_fallback.
Attempt(k, model_name, include_frames, threshold, next) ==
    /\ pc = "attempt_" \o ToString(k)
    /\ trace' = Append(trace, "attempt_" \o ToString(k))
    /\ \E resp \in Responses :
         LET r == classify_video(google_key, model_name, extraction, resp)
         IN  /\ model_calls' =
                   IF google_key
                   THEN Append(model_calls,
                               [model |-> model_name,
                                images |-> Cardinality(FramesSent(extraction, include_frames, files))])
                   ELSE model_calls
             /\ last' = [rung |-> k,
                         reply |-> IF google_key THEN ReplyClass(resp) ELSE "none",
                         raised |-> r.raised,
                         confidence |-> IF r.raised THEN 0 ELSE r.value.confidence]
             /\ IF Accepts(r, threshold)
                THEN result' = r.value /\ pc' = "respond"
                ELSE result' = result /\ pc' = next
    /\ UNCHANGED << procVars, aloneVars >>
    /\ UNCHANGED << url, google_key, youtube_key, video_id, collectVars, outcome,
                    fileVars, extraction, response >>

Attempt1 == Attempt(1, PRIMARY_MODEL, TRUE, Threshold1, "attempt_2")

Attempt2 == Attempt(2, PRIMARY_MODEL, FALSE, Threshold2, "attempt_3")

Attempt3 == Attempt(3, FALLBACK_MODEL, TRUE, Threshold3, "attempt_4")

Attempt4 == Attempt(4, FALLBACK_MODEL, FALSE, Threshold4, "rule_based")

\* Attempt 5: return rule_based_classify(extraction)
RuleBased ==
    /\ pc = "rule_based"
    /\ trace' = Append(trace, "rule_based")
    /\ result' = rule_based_classify(extraction)
    /\ pc' = "respond"
    /\ UNCHANGED << procVars, aloneVars >>
    /\ UNCHANGED << url, google_key, youtube_key, video_id, collectVars, outcome,
                    fileVars, extraction, model_calls, last, response >>

\* routers/analyze.py: return AnalyzeResponse(...)
Respond ==
    /\ pc = "respond"
    /\ response' = [status_code |-> 200, status |-> "completed", detail |-> NONE,
                    category |-> result.category, metadata |-> metadata,
                    result |-> extraction]
    /\ pc' = "done"
    /\ UNCHANGED << procVars, aloneVars >>
    /\ UNCHANGED << url, google_key, youtube_key, video_id, collectVars, outcome,
                    fileVars, trace, extraction, classVars >>

(***************************************************************************)
(* services/processors: the category processors.                           *)
(*                                                                         *)
(* A JSON value is [t, v]: its type and a text of its content.  A dict of  *)
(* Python is a function from its keys.                                     *)
(***************************************************************************)
JStr(s) == [t |-> "str", v |-> s]

JInt(s) == [t |-> "int", v |-> s]

JList(s) == [t |-> "list", v |-> s]

JDict(s) == [t |-> "dict", v |-> s]

JNull == [t |-> "null", v |-> ""]

\* d.get(k)
Get(d, k) == IF k \in DOMAIN d THEN d[k] ELSE JNull

\* d[k] = v
Put(d, k, v) == [ x \in DOMAIN d \cup {k} |-> IF x = k THEN v ELSE d[x] ]

\* `not x`
Falsy(x) == x.t = "null" \/ x.v \in {"", "0", "[]", "{}"}

\* most entries in the list the model returns for a movie video
MaxMovies == 6

\* chunk_size = 5
chunk_size == 5

NoOutput == [type |-> JNull]

NoReply == [called |-> FALSE, kind |-> NONE, fence |-> NONE, obj |-> << >>]

ProcIdle ==
    /\ proc = NONE
    /\ ppc = "idle"
    /\ tmdb_key = FALSE
    /\ record = NoExtraction
    /\ raw_movies = << >>
    /\ enriched_movies = << >>
    /\ chunk_start = 0
    /\ lookups = << >>
    /\ model_reply = NoReply
    /\ output = NoOutput

\* The records the processors are run on.
ProcRecords ==
    { [NoExtraction EXCEPT !.video_id = "test", !.title = "Top Movies of 2024",
                           !.description = d, !.captions = c, !.key_frame_paths = f] :
        d \in {"", "a description"},
        c \in {NONE, "the captions"},
        f \in {<< >>, << FramePath(1) >>} }

\* What the model did: it was not called (no credentials), or the kind and
\* the wrapping of what it answered.
Reply(has_model, resp) ==
    IF has_model
    THEN [called |-> TRUE, kind |-> resp.kind, fence |-> resp.fence,
          obj |-> IF "obj" \in DOMAIN resp THEN resp.obj ELSE << >>]
    ELSE [called |-> FALSE, kind |-> NONE, fence |-> NONE, obj |-> << >>]

\* BaseProcessor.get_text_content
get_text_content(rec) ==
    OrElse(rec.captions, OrElse(rec.transcript, OrElse(rec.description, "")))

\* The text of a response is its body and `fence`, which says how the body is
\* wrapped: not at all, in ```json ... ```, or in ``` ... ```.
Fences == {"none", "json", "plain"}

\* re.sub(r'^```json\s*', '', .), re.sub(r'^```\s*', '', .), re.sub(r'\s*```$', '', .):
\* the wrapping left around the body by the processors' cleaning
ProcStripFence(fence) == "none"

(***************************************************************************)
(* services/processors/default.py                                          *)
(***************************************************************************)
DefaultMinimal(text_content) ==
    [type |-> JStr("general"),
     summary |-> JStr("Summary unavailable - AI processing failed or API key not configured"),
     key_points |-> JList("[]"),
     topics |-> JList("[]"),
     sentiment |-> JStr("neutral"),
     transcript |-> JStr(text_content)]

\* A variant of the repair that leaves the sentiment as the model gave it.
DefaultRepairOtherFields(obj, original_text) ==
    LET r1 == IF Get(obj, "type").t /= "str" THEN Put(obj, "type", JStr("general")) ELSE obj
        r2 == IF Get(r1, "summary").t /= "str"
              THEN Put(r1, "summary", JStr("Summary unavailable")) ELSE r1
        r3 == IF Get(r2, "key_points").t /= "list" THEN Put(r2, "key_points", JList("[]")) ELSE r2
        r4 == IF Get(r3, "topics").t /= "list" THEN Put(r3, "topics", JList("[]")) ELSE r3
        r5 == IF "sentiment" \notin DOMAIN r4 THEN Put(r4, "sentiment", JStr("neutral")) ELSE r4
        r6 == IF Get(r5, "transcript").t /= "str"
              THEN Put(r5, "transcript", JStr(original_text)) ELSE r5
    IN  r6

\* the field-by-field repair of DefaultProcessor._parse_response
DefaultRepair(obj, original_text) ==
    LET r1 == IF Get(obj, "type").t /= "str" THEN Put(obj, "type", JStr("general")) ELSE obj
        r2 == IF Get(r1, "summary").t /= "str"
              THEN Put(r1, "summary", JStr("Summary unavailable")) ELSE r1
        r3 == IF Get(r2, "key_points").t /= "list" THEN Put(r2, "key_points", JList("[]")) ELSE r2
        r4 == IF Get(r3, "topics").t /= "list" THEN Put(r3, "topics", JList("[]")) ELSE r3
        r5 == IF Get(r4, "sentiment") \notin { JStr("positive"), JStr("negative"), JStr("neutral") }
              THEN Put(r4, "sentiment", JStr("neutral")) ELSE r4
        r6 == IF Get(r5, "transcript").t /= "str"
              THEN Put(r5, "transcript", JStr(original_text)) ELSE r5
    IN  r6

\* DefaultProcessor._parse_response: resp is [kind, fence, obj]
DefaultParse(resp, original_text) ==
    IF resp.kind = "object" /\ ProcStripFence(resp.fence) = "none"
    THEN DefaultRepair(resp.obj, original_text)
    \* json.JSONDecodeError, and the AttributeError of .get on a JSON value
    \* that is no object
    ELSE DefaultMinimal(original_text)

\* DefaultProcessor.process
DefaultProcess(has_model, rec, resp) ==
    LET text_content == get_text_content(rec)
    IN  IF ~has_model THEN DefaultMinimal(text_content)
        ELSE IF resp.kind = "api_error" THEN DefaultMinimal(text_content)
        ELSE DefaultParse(resp, text_content)

\* The JSON objects the model may answer the default prompt with.
DefaultObjects ==
    { [ k \in keys |-> vals[k] ] :
        keys \in SUBSET {"type", "summary", "key_points", "sentiment"},
        vals \in [type : {JStr("general"), JStr("recipe"), JInt("1")},
                  summary : {JStr("a summary"), JNull},
                  key_points : {JList("[...]"), JStr("one point")},
                  sentiment : {JStr("positive"), JStr("mixed"), JInt("1")}] }
    \cup
    { [topics |-> t, transcript |-> x] :
        t \in {JList("[...]"), JDict("{...}")}, x \in {JStr("the transcript"), JNull} }

ProcResponses(objects) ==
    [kind : {"api_error", "bad_json", "json_list", "json_string"},
     fence : {"none"}, obj : {<< >>}]
    \cup [kind : {"object"}, fence : Fences, obj : objects]

(***************************************************************************)
(* services/processors/recipe.py                                           *)
(***************************************************************************)
NoNutrition == JDict("{calories: 0, protein: Not available, ...}")

RecipeMinimal(video_title, text_content) ==
    [type |-> JStr("recipe"),
     dish_name |-> JStr(video_title),
     cuisine |-> JStr("Unknown"),
     prep_time |-> JStr("Not specified"),
     cook_time |-> JStr("Not specified"),
     servings |-> JInt("0"),
     difficulty |-> JStr("medium"),
     ingredients |-> JList("[]"),
     steps |-> JList("[]"),
     tips |-> JList("[]"),
     nutrition_estimate |-> NoNutrition,
     transcript_completeness |-> JStr(IF text_content = "" THEN "visual_only" ELSE "partial"),
     error |-> JStr("AI processing failed or API key not configured")]

Default(obj, key, type, value) ==
    IF Get(obj, key).t /= type THEN Put(obj, key, value) ELSE obj

\* the field-by-field repair of RecipeProcessor._parse_response
RecipeRepair(obj, video_title, original_text) ==
    LET r0 == Put(obj, "type", JStr("recipe"))
        r1 == IF Get(r0, "dish_name").t /= "str" \/ Falsy(Get(r0, "dish_name"))
              THEN Put(r0, "dish_name", JStr(video_title)) ELSE r0
        r2 == Default(r1, "cuisine", "str", JStr("Unknown"))
        r3 == Default(r2, "prep_time", "str", JStr("Not specified"))
        r4 == Default(r3, "cook_time", "str", JStr("Not specified"))
        r5 == Default(r4, "servings", "int", JInt("0"))
        r6 == IF Get(r5, "difficulty") \notin { JStr("easy"), JStr("medium"), JStr("hard") }
              THEN Put(r5, "difficulty", JStr("medium")) ELSE r5
        r7 == Default(r6, "ingredients", "list", JList("[]"))
        r8 == Default(r7, "steps", "list", JList("[]"))
        r9 == Default(r8, "tips", "list", JList("[]"))
        r10 == Default(r9, "nutrition_estimate", "dict", NoNutrition)
        r11 == IF Falsy(Get(r10, "transcript_completeness"))
               THEN Put(r10, "transcript_completeness",
                        JStr(IF original_text /= "" THEN "complete" ELSE "visual_only"))
               ELSE r10
    IN  r11

\* RecipeProcessor._parse_response
RecipeParse(resp, video_title, original_text) ==
    IF resp.kind = "object" /\ ProcStripFence(resp.fence) = "none"
    THEN RecipeRepair(resp.obj, video_title, original_text)
    \* json.JSONDecodeError, and the TypeError of result["type"] = ... on a
    \* JSON value that is no object
    ELSE RecipeMinimal(video_title, original_text)

\* [:8000]
RecipeTextCut == 8000

\* RecipeProcessor.process
RecipeProcess(has_model, rec, resp) ==
    LET text_content == Prefix(get_text_content(rec), RecipeTextCut)
    IN  IF ~has_model THEN RecipeMinimal(rec.title, text_content)
        ELSE IF resp.kind = "api_error" THEN RecipeMinimal(rec.title, text_content)
        ELSE RecipeParse(resp, rec.title, text_content)

\* The JSON objects the model may answer the recipe prompt with.
RecipeObjects ==
    { [ k \in keys |-> vals[k] ] :
        keys \in SUBSET {"type", "dish_name", "difficulty", "servings"},
        vals \in [type : {JStr("recipe"), JStr("dessert")},
                  dish_name : {JStr("Pasta"), JStr(""), JInt("3")},
                  difficulty : {JStr("easy"), JStr("extreme")},
                  servings : {JInt("4"), JStr("four")}] }
    \cup
    { [cuisine |-> c, prep_time |-> c, cook_time |-> c, ingredients |-> l, steps |-> l,
       tips |-> l, nutrition_estimate |-> n, transcript_completeness |-> t] :
        c \in {JStr("Italian"), JNull},
        l \in {JList("[...]"), JStr("none")},
        n \in {JDict("{...}"), JList("[]")},
        t \in {JStr("partial"), JStr("")} }

(***************************************************************************)
(* services/processors/movie_list.py                                       *)
(***************************************************************************)
\* The i-th entry of the list the model returns is a dict with a title
\* ("dict"), or an entry the parser skips ("skip"): a dict without a title or
\* a value that is no dict.  What else the entry holds goes by its position.
EntryKinds == {"dict", "skip"}

EntryYear(i) ==
    IF i % 4 = 0 THEN JNull
    ELSE IF i % 4 = 1 THEN JInt("1995")
    ELSE IF i % 4 = 2 THEN JStr("1979")
    ELSE JStr("last year")

Entry(i, kind) ==
    IF kind = "dict"
    THEN [t |-> "dict", has_title |-> TRUE, title |-> " Movie " \o ToString(i) \o " ",
          year |-> EntryYear(i)]
    ELSE [t |-> IF i % 2 = 0 THEN "dict" ELSE "str", has_title |-> FALSE, title |-> NONE,
          year |-> JNull]

MovieLists ==
    UNION { { [ i \in 1..n |-> Entry(i, kinds[i]) ] : kinds \in [1..n -> EntryKinds] } :
            n \in 0..MaxMovies }

MovieResponses ==
    [kind : {"api_error", "bad_json", "json_object"}, fence : {"none"}, list : {<< >>}]
    \cup [kind : {"list"}, fence : {"none"}, list : MovieLists]
    \cup [kind : {"list"}, fence : Fences, list : { l \in MovieLists : Len(l) <= 2 }]

\* int(year) if year is not None else None, None when int() raises
ParseYear(y) ==
    IF y.t = "int" THEN y.v
    ELSE IF y.t = "str" /\ y.v \in {"1979"} THEN y.v
    ELSE NONE

\* the validation loop of _parse_movie_response, from entry i on
RECURSIVE Validated(_, _)
Validated(movies, i) ==
    IF i > Len(movies) THEN << >>
    ELSE IF movies[i].t /= "dict" \/ ~movies[i].has_title THEN Validated(movies, i + 1)
    ELSE << [title |-> Strip(movies[i].title),
             year |-> ParseYear(movies[i].year),
             rank |-> i] >> \o Validated(movies, i + 1)

\* MovieListProcessor._parse_movie_response
parse_movie_response(resp) ==
    IF resp.kind = "list" /\ ProcStripFence(resp.fence) = "none"
    THEN Validated(resp.list, 1)
    ELSE << >>

\* MovieListProcessor._extract_movies
extract_movies(has_model, resp) ==
    IF ~has_model THEN << >>
    ELSE IF resp.kind = "api_error" THEN << >>
    ELSE parse_movie_response(resp)

\* What the movie database does with a lookup.
TmdbReplies == {"found", "no_results", "http_error", "network", "malformed"}

\* enrich_movie_with_tmdb: the dict of a found movie, its fields other than
\* the title, the year and the TMDB id being left out; NoMovie for None
NoMovie == [title |-> NONE, year |-> NONE, tmdb_id |-> NONE]

enrich_movie_with_tmdb(key, movie_title, reply) ==
    IF ~key THEN NoMovie
    ELSE IF reply = "found"
    THEN [title |-> "TMDB " \o movie_title, year |-> "2001", tmdb_id |-> "id of " \o movie_title]
    ELSE NoMovie

\* the loop over zip(chunk, results): an entry found gets the rank of the raw
\* entry, an entry not found is the raw entry marked tmdb_found = False
Combined(raw, enriched) ==
    IF enriched /= NoMovie
    THEN [title |-> enriched.title, year |-> enriched.year, tmdb_id |-> enriched.tmdb_id,
          rank |-> raw.rank]
    ELSE [title |-> raw.title, year |-> raw.year, rank |-> raw.rank, tmdb_found |-> FALSE]

\* A variant whose slice is one entry longer than chunk_size.
ChunkWide(raw, i) == { j \in 1..Len(raw) : i < j /\ j <= i + chunk_size + 1 }

\* raw_movies[i:i+chunk_size], as the set of its indexes (from 1)
Chunk(raw, i) == { j \in 1..Len(raw) : i < j /\ j <= i + chunk_size }

Pending == [state |-> "pending", movie |-> NoMovie]

NotStarted == [state |-> "none", movie |-> NoMovie]

\* tasks = [enrich_movie_with_tmdb(...) for m in chunk]
NewLookups(looks, raw, i) ==
    [ j \in 1..Len(raw) |-> IF j \in Chunk(raw, i) THEN Pending
                            ELSE IF j \in DOMAIN looks THEN looks[j] ELSE NotStarted ]

\* A variant of the combining loop that leaves out the entries not found.
RECURSIVE CombineChunkFound(_, _, _, _)
CombineChunkFound(raw, looks, j, last_j) ==
    IF j > last_j THEN << >>
    ELSE (IF looks[j].movie /= NoMovie THEN << Combined(raw[j], looks[j].movie) >> ELSE << >>)
         \o CombineChunkFound(raw, looks, j + 1, last_j)

\* A variant that takes the results of a chunk from the last task to the first.
RECURSIVE CombineChunkReversed(_, _, _, _)
CombineChunkReversed(raw, looks, j, last_j) ==
    IF j > last_j THEN << >>
    ELSE CombineChunkReversed(raw, looks, j + 1, last_j) \o << Combined(raw[j], looks[j].movie) >>

RECURSIVE CombineChunk(_, _, _, _)
CombineChunk(raw, looks, j, last_j) ==
    IF j > last_j THEN << >>
    ELSE << Combined(raw[j], looks[j].movie) >> \o CombineChunk(raw, looks, j + 1, last_j)

MovieOutput(movies, method) ==
    [type |-> JStr("movie_list"), movies |-> movies, count |-> Len(movies),
     extraction_method |-> JStr(method)]

\* process(), up to the first gather: the extraction, then either the return
\* of the empty result or the tasks of the first chunk
MovieStart ==
    /\ proc = "movie_list"
    /\ ppc = "start"
    /\ \E resp \in MovieResponses :
         LET raw == extract_movies(google_key, resp)
         IN  /\ model_reply' = Reply(google_key, resp)
             /\ raw_movies' = raw
             /\ IF raw = << >>
                THEN /\ output' = MovieOutput(<< >>, "failed")
                     /\ ppc' = "done"
                     /\ lookups' = lookups
                ELSE /\ lookups' = NewLookups(lookups, raw, 0)
                     /\ ppc' = "gather"
                     /\ output' = output
    /\ UNCHANGED << proc, tmdb_key, record, enriched_movies, chunk_start >>
    /\ UNCHANGED << pipeVars, aloneVars >>

\* One enrich_movie_with_tmdb task of the chunk ends; the tasks of a chunk end
\* in any order.
LookupDone ==
    /\ proc = "movie_list"
    /\ ppc = "gather"
    /\ \E j \in DOMAIN lookups, reply \in TmdbReplies :
         /\ lookups[j].state = "pending"
         /\ lookups' = [lookups EXCEPT ![j] =
                [state |-> "done",
                 movie |-> enrich_movie_with_tmdb(tmdb_key, raw_movies[j].title, reply)]]
    /\ UNCHANGED << proc, ppc, tmdb_key, record, raw_movies, enriched_movies,
                    chunk_start, model_reply, output >>
    /\ UNCHANGED << pipeVars, aloneVars >>

\* gather returns: the results are combined in the order of the chunk; then
\* the next chunk's tasks are made, or process() returns.
Join ==
    /\ proc = "movie_list"
    /\ ppc = "gather"
    /\ \A j \in DOMAIN lookups : lookups[j].state /= "pending"
    /\ LET first == chunk_start + 1
           final == Min(chunk_start + chunk_size, Len(raw_movies))
           all == enriched_movies \o CombineChunk(raw_movies, lookups, first, final)
           next == chunk_start + chunk_size
       IN  /\ enriched_movies' = all
           /\ IF next < Len(raw_movies)
              THEN /\ chunk_start' = next
                   /\ lookups' = NewLookups(lookups, raw_movies, next)
                   /\ UNCHANGED << ppc, output >>
              ELSE /\ output' = MovieOutput(all, IF record.key_frame_paths /= << >>
                                                 THEN "multimodal" ELSE "text_only")
                   /\ ppc' = "done"
                   /\ UNCHANGED << chunk_start, lookups >>
    /\ UNCHANGED << proc, tmdb_key, record, raw_movies, model_reply >>
    /\ UNCHANGED << pipeVars, aloneVars >>

\* RecipeProcessor().process(record)
Recipe ==
    /\ proc = "recipe"
    /\ ppc = "start"
    /\ \E resp \in ProcResponses(RecipeObjects) :
         /\ model_reply' = Reply(google_key, resp)
         /\ output' = RecipeProcess(google_key, record, resp)
    /\ ppc' = "done"
    /\ UNCHANGED << proc, tmdb_key, record, raw_movies, enriched_movies, chunk_start, lookups >>
    /\ UNCHANGED << pipeVars, aloneVars >>

\* DefaultProcessor().process(record)
DefaultProc ==
    /\ proc = "default"
    /\ ppc = "start"
    /\ \E resp \in ProcResponses(DefaultObjects) :
         /\ model_reply' = Reply(google_key, resp)
         /\ output' = DefaultProcess(google_key, record, resp)
    /\ ppc' = "done"
    /\ UNCHANGED << proc, tmdb_key, record, raw_movies, enriched_movies, chunk_start, lookups >>
    /\ UNCHANGED << pipeVars, aloneVars >>

PipeIdle ==
    /\ pc = "idle"
    /\ url = ""
    /\ google_key \in BOOLEAN
    /\ youtube_key = FALSE
    /\ video_id = NONE
    /\ metadata = NoMetadata
    /\ captions = NONE
    /\ transcript = NONE
    /\ audio_path = NONE
    /\ video_path = NONE
    /\ key_frames = << >>
    /\ comments = << >>
    /\ outcome = NoOutcome
    /\ files = {}
    /\ downloaded = {}
    /\ unlink_raises = {}
    /\ trace = << >>
    /\ model_calls = << >>
    /\ extraction = NoExtraction
    /\ last = NoLast
    /\ result = NoResult
    /\ response = NoResponse

InitProc ==
    /\ PipeIdle
    /\ AloneIdle
    /\ proc \in {"recipe", "movie_list", "default"}
    /\ ppc = "start"
    /\ tmdb_key \in BOOLEAN
    /\ record \in ProcRecords
    /\ raw_movies = << >>
    /\ enriched_movies = << >>
    /\ chunk_start = 0
    /\ lookups = << >>
    /\ model_reply = NoReply
    /\ output = NoOutput

NextProc ==
    \/ Recipe
    \/ DefaultProc
    \/ MovieStart
    \/ LookupDone
    \/ Join

\* ---------------------------------------------------------------------------
\* _extract_movies on its own, on responses that list many movies (SpecMovies)
\* ---------------------------------------------------------------------------

\* the longest list a response holds here
MaxListed == 52

\* a list of n entries of which every skip-th is no dict with a title
LongList(n, skip) ==
    [ i \in 1..n |-> Entry(i, IF skip > 0 /\ i % skip = 0 THEN "skip" ELSE "dict") ]

LongMovieResponses ==
    [kind : {"api_error", "bad_json", "json_object"}, fence : {"none"}, list : {<< >>}]
    \cup [kind : {"list"}, fence : Fences,
          list : { LongList(n, skip) : n \in 0..MaxListed, skip \in {0, 2, 3, 7} }]

InitMovies ==
    /\ PipeIdle
    /\ AloneIdle
    /\ proc = "movie_list"
    /\ ppc = "start"
    /\ tmdb_key = FALSE
    /\ record = NoExtraction
    /\ raw_movies = << >>
    /\ enriched_movies = << >>
    /\ chunk_start = 0
    /\ lookups = << >>
    /\ model_reply = NoReply
    /\ output = NoOutput

\* raw_movies = await self._extract_movies(transcript, video_title, key_frames);
\* of the response, model_reply keeps the number of entries it lists
ExtractMovies ==
    /\ proc = "movie_list"
    /\ ppc = "start"
    /\ \E resp \in LongMovieResponses :
         /\ model_reply' = [Reply(google_key, resp) EXCEPT !.obj = Len(resp.list)]
         /\ raw_movies' = extract_movies(google_key, resp)
    /\ ppc' = "extracted"
    /\ UNCHANGED << proc, tmdb_key, record, enriched_movies, chunk_start, lookups, output >>
    /\ UNCHANGED << pipeVars, aloneVars >>

NextMovies == ExtractMovies

(***************************************************************************)
(* rule_based_classify applied to records of its own (SpecRule).           *)
(***************************************************************************)
\* n characters that are part of no keyword
RECURSIVE Pad(_)
Pad(n) ==
    IF n = 0 THEN ""
    ELSE IF n % 2 = 0 THEN LET half == Pad(n \div 2) IN half \o half
    ELSE "." \o Pad(n - 1)

RuleTitles ==
    { "zzz",
      "Breaking News: headlines tonight",
      "Top Movies of 2024",
      "BEST SONGS and Greatest Hits",
      "Tutorial",
      "tips",
      "Recipe, recipe and recipe again",
      "Gameplay Walkthrough",
      "Travel Vlog",
      "workout at the gym" }

RuleDescriptions == { "", "learn cooking" }

\* captions with a keyword before, across and after character 1000
RuleCaptions ==
    { NONE,
      "How to cook pasta",
      Pad(TranscriptCut - 8) \o " podcast and a review",
      Pad(TranscriptCut - 4) \o " podcast and a review",
      Pad(TranscriptCut) \o " podcast and a review" }

RuleTranscripts == { NONE, "welcome to my daily vlog" }

RuleRecords ==
    { [NoExtraction EXCEPT !.video_id = "test", !.title = t, !.description = d,
                           !.captions = c, !.transcript = x] :
        t \in RuleTitles, d \in RuleDescriptions, c \in RuleCaptions, x \in RuleTranscripts }

\* the variables of the request that a run outside the request leaves alone
RequestUnused ==
    /\ video_id = NONE
    /\ metadata = NoMetadata
    /\ captions = NONE
    /\ transcript = NONE
    /\ audio_path = NONE
    /\ video_path = NONE
    /\ key_frames = << >>
    /\ comments = << >>
    /\ outcome = NoOutcome
    /\ files = {}
    /\ downloaded = {}
    /\ unlink_raises = {}
    /\ trace = << >>
    /\ model_calls = << >>
    /\ last = NoLast
    /\ result = NoResult
    /\ response = NoResponse

InitRule ==
    /\ pc = "rule_based"
    /\ url = ""
    /\ google_key = FALSE
    /\ youtube_key = FALSE
    /\ extraction \in RuleRecords
    /\ RequestUnused
    /\ ProcIdle
    /\ AloneIdle

NextRule == RuleBased

(***************************************************************************)
(* extract_video_id applied to URLs of its own (SpecUrl).                  *)
(***************************************************************************)
\* identifiers: two well-formed ones, and ones too short, too long, with a
\* character outside the alphabet, and followed by an encoded line feed
UrlIds ==
    { "dQw4w9WgXcQ", "a-b_c012345", "abc", "dQw4w9WgXcQZ", "dQw4w9WgXc!", "dQw4w9WgXcQ%0A" }

UrlForms(id) ==
    { "https://youtu.be/" \o id,
      "https://www.youtube.com/watch?v=" \o id,
      "https://www.youtube.com/shorts/" \o id,
      "https://www.youtube.com/embed/" \o id,
      "https://www.youtube.com/v/" \o id,
      "https://m.youtube.com/watch?v=" \o id,
      "https://www.youtube.com/watch?feature=share&v=" \o id,
      "https://youtu.be/" \o id \o "?t=10",
      "  https://youtu.be/" \o id \o " ",
      "youtube.com/watch?v=" \o id,
      "https://vimeo.com/watch?v=" \o id }

UrlInputs == UNION { UrlForms(id) : id \in UrlIds } \cup { "", "dQw4w9WgXcQ" }

InitUrl ==
    /\ pc = "extract_video_id"
    /\ url \in UrlInputs
    /\ google_key = FALSE
    /\ youtube_key = FALSE
    /\ extraction = NoExtraction
    /\ RequestUnused
    /\ ProcIdle
    /\ AloneIdle

NextUrl == ExtractVideoId

\* ---------------------------------------------------------------------------
\* _parse_response on its own: every reply with and without a code fence
\* ---------------------------------------------------------------------------

\* each reply bare, inside ```json ... ``` and inside ``` ... ```
ParseResponses == { [resp EXCEPT !.fence = f] : resp \in Responses, f \in Fences }

ParseArgs ==
    [response : ParseResponses, model_name : {PRIMARY_MODEL, FALLBACK_MODEL},
     video_id : {"dQw4w9WgXcQ"}]

InitParse ==
    /\ PipeIdle
    /\ ProcIdle
    /\ WhisperIdle
    /\ PairIdle
    /\ parse_args \in ParseArgs
    /\ parsed = NotParsed

\* self._parse_response(response, extraction)
ParseResponse ==
    /\ parse_args /= NoCall
    /\ ~ParseDone
    /\ parsed' = parse_response(parse_args.response, parse_args.model_name,
                                [video_id |-> parse_args.video_id])
    /\ UNCHANGED << pipeVars, procVars, parse_args, whisperVars, pairVars >>

NextParse == ParseResponse

\* ---------------------------------------------------------------------------
\* get_whisper_model called again and again in one process (SpecWhisper)
\* ---------------------------------------------------------------------------

\* the number of get_whisper_model calls followed
MaxCalls == 5

ModelNames == {"base", "small"}

\* whisper.load_model(model_name): the handle of the model loaded by the n-th
\* load_model call
Handle(model_name, n) == [name |-> model_name, load |-> n]

\* A variant without the `if _whisper_model is None` test.
get_whisper_model_reloading(available, handle, model_name, load_ok, n) ==
    IF ~available
    THEN [model |-> handle, loaded |-> << >>, result |-> [Raise("ImportError") EXCEPT !.value = NoHandle]]
    ELSE IF load_ok
         THEN [model |-> Handle(model_name, n),
               loaded |-> << [name |-> model_name, ok |-> TRUE] >>,
               result |-> Return(Handle(model_name, n))]
         ELSE [model |-> handle,
               loaded |-> << [name |-> model_name, ok |-> FALSE] >>,
               result |-> [Raise("RuntimeError") EXCEPT !.value = NoHandle]]

\* get_whisper_model(model_name): the new _whisper_model, the load_model call
\* made if any, and what the call returns or raises; n numbers the load
get_whisper_model(available, handle, model_name, load_ok, n) ==
    IF ~available
    THEN [model |-> handle, loaded |-> << >>, result |-> [Raise("ImportError") EXCEPT !.value = NoHandle]]
    ELSE IF handle = NoHandle
    THEN IF load_ok
         THEN [model |-> Handle(model_name, n),
               loaded |-> << [name |-> model_name, ok |-> TRUE] >>,
               result |-> Return(Handle(model_name, n))]
         ELSE [model |-> handle,
               loaded |-> << [name |-> model_name, ok |-> FALSE] >>,
               result |-> [Raise("RuntimeError") EXCEPT !.value = NoHandle]]
    ELSE [model |-> handle, loaded |-> << >>, result |-> Return(handle)]

InitWhisper ==
    /\ PipeIdle
    /\ ProcIdle
    /\ ParseIdle
    /\ PairIdle
    /\ WHISPER_AVAILABLE \in BOOLEAN
    /\ whisper_model = NoHandle
    /\ load_log = << >>
    /\ whisper_returned = << >>

\* one call of get_whisper_model, load_model succeeding or raising
GetWhisperModel ==
    /\ Len(whisper_returned) < MaxCalls
    /\ \E model_name \in ModelNames, load_ok \in BOOLEAN :
         LET r == get_whisper_model(WHISPER_AVAILABLE, whisper_model, model_name, load_ok,
                                    Len(load_log) + 1)
         IN  /\ whisper_model' = r.model
             /\ load_log' = load_log \o r.loaded
             /\ whisper_returned' = Append(whisper_returned, r.result)
    /\ UNCHANGED << pipeVars, procVars, parseVars, pairVars, WHISPER_AVAILABLE >>

NextWhisper == GetWhisperModel

\* ---------------------------------------------------------------------------
\* extract_all of two requests for one video ID (SpecPair).  Both requests
\* have the same /tmp/vidbrain/ID.mp3, ID.mp4 and ID/frame_N.jpg.  In one
\* event loop a request gives way only at its awaits (get_metadata,
\* get_top_comments), the collectors in between being blocking calls; in
\* different worker processes the requests go on independently.
\* ---------------------------------------------------------------------------
Requests == {1, 2}

NewRequest ==
    [pc |-> "get_metadata", captions |-> NONE, audio_path |-> NONE, transcript |-> NONE,
     video_path |-> NONE, key_frames |-> << >>, missed |-> {}]

InitPair ==
    /\ PipeIdle
    /\ ProcIdle
    /\ ParseIdle
    /\ WhisperIdle
    /\ one_loop \in BOOLEAN
    /\ running = 0
    /\ req = [ r \in Requests |-> NewRequest ]
    /\ tmp_dir = {}

\* request r can go on: its process is not running the other request
MayRun(r) == one_loop => running \in {0, r}

\* r goes on to step `next`; the event loop is free again when r awaits
Goes(r, next) ==
    running' = IF one_loop /\ next \notin {"get_top_comments", "done"} THEN r ELSE 0

\* metadata = await get_metadata(video_id) returns
PairGetMetadata(r) ==
    /\ req[r].pc = "get_metadata"
    /\ MayRun(r)
    /\ req' = [req EXCEPT ![r].pc = "get_captions"]
    /\ Goes(r, "get_captions")
    /\ UNCHANGED << one_loop, tmp_dir >>
    /\ UNCHANGED << pipeVars, procVars, parseVars, whisperVars >>

\* captions = get_captions(video_id), then `if not captions`
PairGetCaptions(r) ==
    /\ req[r].pc = "get_captions"
    /\ MayRun(r)
    /\ \E reply \in CaptionReplies :
         LET c == get_captions(reply)
             next == IF Truthy(c) THEN "download_video" ELSE "download_audio"
         IN  /\ req' = [req EXCEPT ![r].captions = c, ![r].pc = next]
             /\ Goes(r, next)
    /\ UNCHANGED << one_loop, tmp_dir >>
    /\ UNCHANGED << pipeVars, procVars, parseVars, whisperVars >>

\* audio_path = download_audio(video_id), then `if audio_path`
PairDownloadAudio(r) ==
    /\ req[r].pc = "download_audio"
    /\ MayRun(r)
    /\ \E reply \in DownloadReplies :
         LET p == download(reply, AUDIO)
             next == IF p /= NONE THEN "transcribe_audio" ELSE "download_video"
         IN  /\ req' = [req EXCEPT ![r].audio_path = p, ![r].pc = next]
             /\ tmp_dir' = IF reply = "ok" THEN tmp_dir \cup {AUDIO} ELSE tmp_dir
             /\ Goes(r, next)
    /\ UNCHANGED one_loop
    /\ UNCHANGED << pipeVars, procVars, parseVars, whisperVars >>

\* transcript = transcribe_audio(audio_path); the request misses its
\* transcript when the file it downloaded is not there any more
PairTranscribeAudio(r) ==
    /\ req[r].pc = "transcribe_audio"
    /\ MayRun(r)
    /\ \E reply \in TranscribeReplies :
         req' = [req EXCEPT ![r].transcript = transcribe_audio(req[r].audio_path, tmp_dir, reply),
                            ![r].missed = IF req[r].audio_path \in tmp_dir THEN @
                                          ELSE @ \cup {"transcript"},
                            ![r].pc = "download_video"]
    /\ Goes(r, "download_video")
    /\ UNCHANGED << one_loop, tmp_dir >>
    /\ UNCHANGED << pipeVars, procVars, parseVars, whisperVars >>

\* video_path = download_video(video_id), then `if video_path`
PairDownloadVideo(r) ==
    /\ req[r].pc = "download_video"
    /\ MayRun(r)
    /\ \E reply \in DownloadReplies :
         LET p == download(reply, VIDEO)
             next == IF p /= NONE THEN "extract_key_frames" ELSE "get_top_comments"
         IN  /\ req' = [req EXCEPT ![r].video_path = p, ![r].pc = next]
             /\ tmp_dir' = IF reply = "ok" THEN tmp_dir \cup {VIDEO} ELSE tmp_dir
             /\ Goes(r, next)
    /\ UNCHANGED one_loop
    /\ UNCHANGED << pipeVars, procVars, parseVars, whisperVars >>

\* key_frames = extract_key_frames(video_path, 30), then await get_top_comments
PairExtractKeyFrames(r) ==
    /\ req[r].pc = "extract_key_frames"
    /\ MayRun(r)
    /\ \E reply \in FrameReplies :
         LET f == extract_key_frames(req[r].video_path, tmp_dir, reply)
         IN  /\ req' = [req EXCEPT ![r].key_frames = f,
                                    ![r].missed = IF req[r].video_path \in tmp_dir THEN @
                                                  ELSE @ \cup {"key_frames"},
                                    ![r].pc = "get_top_comments"]
             /\ tmp_dir' = tmp_dir \cup Range(f)
    /\ Goes(r, "get_top_comments")
    /\ UNCHANGED one_loop
    /\ UNCHANGED << pipeVars, procVars, parseVars, whisperVars >>

\* await get_top_comments returns, and the cleanup block runs; extract_all returns
PairCleanup(r) ==
    /\ req[r].pc = "get_top_comments"
    /\ MayRun(r)
    /\ \E raises \in SUBSET (tmp_dir \cap {AUDIO, VIDEO}) :
         tmp_dir' = CleanupFiles(tmp_dir, req[r].audio_path, req[r].video_path, raises)
    /\ req' = [req EXCEPT ![r].pc = "done"]
    /\ Goes(r, "done")
    /\ UNCHANGED one_loop
    /\ UNCHANGED << pipeVars, procVars, parseVars, whisperVars >>

NextPair ==
    \E r \in Requests :
        \/ PairGetMetadata(r)
        \/ PairGetCaptions(r)
        \/ PairDownloadAudio(r)
        \/ PairTranscribeAudio(r)
        \/ PairDownloadVideo(r)
        \/ PairExtractKeyFrames(r)
        \/ PairCleanup(r)

vars == << pipeVars, procVars, aloneVars >>

Init == InitPipe /\ ProcIdle /\ AloneIdle

Next ==
    \/ ExtractVideoId
    \/ GetMetadata
    \/ GetCaptions
    \/ DownloadAudio
    \/ TranscribeAudio
    \/ DownloadVideo
    \/ ExtractKeyFrames
    \/ GetTopComments
    \/ Cleanup
    \/ Attempt1
    \/ Attempt2
    \/ Attempt3
    \/ Attempt4
    \/ RuleBased
    \/ Respond

Spec == Init /\ [][Next]_vars

SpecProc == InitProc /\ [][NextProc]_vars

SpecRule == InitRule /\ [][NextRule]_vars

SpecUrl == InitUrl /\ [][NextUrl]_vars

SpecParse == InitParse /\ [][NextParse]_vars

SpecMovies == InitMovies /\ [][NextMovies]_vars

SpecWhisper == InitWhisper /\ [][NextWhisper]_vars

SpecPair == InitPair /\ [][NextPair]_vars

(***************************************************************************)
(* Properties.                                                             *)
(***************************************************************************)
Classified == pc = "respond" \/ response.status_code = 200

\* C1: classify_with_fallback always returns one ClassificationResult and
\* never raises: once extract_all has returned, the request meets no error,
\* and the result returned has a category of VideoCategory and a confidence
\* in [0.0, 1.0], whatever each of the four AI rungs did.
C1_Total ==
    /\ extraction /= NoExtraction => response.status_code \in {0, 200}
    /\ Classified =>
         /\ result /= NoResult
         /\ result.category \in VideoCategory
         /\ ConfMin <= result.confidence
         /\ result.confidence <= ConfMax

\* All four AI rungs called the model and none was accepted, the last one
\* raising; the rule-based result is returned.
C1_Witness ==
    /\ pc = "respond"
    /\ google_key
    /\ Len(model_calls) = 4
    /\ result.model_used = "rule-based"
    /\ last.rung = 4
    /\ last.raised

RungNames == << "attempt_1", "attempt_2", "attempt_3", "attempt_4", "rule_based" >>

IsRung(name) == name \in Range(RungNames)

RungThreshold == << Threshold1, Threshold2, Threshold3, Threshold4 >>

RungModel == << PRIMARY_MODEL, PRIMARY_MODEL, FALLBACK_MODEL, FALLBACK_MODEL >>

\* the rungs attempted so far are the first ones of the ladder, each once
C2_Order ==
    LET rungs == SelectSeq(trace, IsRung)
    IN  rungs = SubSeq(RungNames, 1, Len(rungs))

\* what a rung's step does: the result of AI rung k is returned when its
\* confidence is above threshold k, and the next rung is tried otherwise
C2_Step ==
    /\ \A k \in 1..4 :
         (pc = RungNames[k] /\ pc' /= pc) =>
           /\ last'.rung = k
           /\ google_key =>
                /\ model_calls'[Len(model_calls')].model = RungModel[k]
                /\ k \in {2, 4} => model_calls'[Len(model_calls')].images = 0
           /\ IF ~last'.raised /\ last'.confidence > RungThreshold[k]
              THEN /\ pc' = "respond"
                   /\ result'.model_used = RungModel[k]
                   /\ result'.confidence = last'.confidence
              ELSE /\ pc' = RungNames[k + 1]
                   /\ result' = result
    /\ (pc = "rule_based" /\ pc' /= pc) =>
           /\ pc' = "respond"
           /\ result'.model_used = "rule-based"

C3_NoCredential ==
    ~google_key =>
        /\ model_calls = << >>
        /\ Classified =>
             /\ result.model_used = "rule-based"
             /\ result.confidence <= 180

\* Without the key all four rungs were attempted and the keywords decided.
C3_Witness ==
    /\ ~google_key
    /\ pc = "respond"
    /\ SelectSeq(trace, IsRung) = RungNames
    /\ result.category = "movie_list"
    /\ result.confidence > 0

\* C4: once the identifier is parsed and the metadata fetched, extract_all
\* returns a record: no collector's failure ends the request, the field of a
\* failing collector is None or empty, and the collectors after it still run
\* and fill their fields.
C4_Isolation ==
    /\ metadata /= NoMetadata => response.status_code \in {0, 200}
    /\ pc \in Range(RungNames) \cup {"respond"} => extraction /= NoExtraction
    /\ extraction /= NoExtraction =>
         /\ outcome.captions /= "notrun"
         /\ outcome.video /= "notrun"
         /\ outcome.comments /= "notrun"
         /\ outcome.captions = "failed" => outcome.audio /= "notrun"
         /\ outcome.audio = "ok" => outcome.transcribe /= "notrun"
         /\ outcome.video = "ok" => outcome.frames /= "notrun"
         /\ outcome.captions = "failed" => extraction.captions = NONE
         /\ outcome.captions = "ok" => extraction.captions \in CaptionTexts
         /\ outcome.captions = "empty" => extraction.captions = ""
         /\ outcome.captions /= "ok" => outcome.audio /= "notrun"
         /\ (outcome.audio /= "ok" \/ outcome.transcribe /= "ok") => extraction.transcript = NONE
         /\ outcome.transcribe = "ok" => extraction.transcript \in TranscriptTexts
         /\ (outcome.video /= "ok" \/ outcome.frames /= "ok") => extraction.key_frame_paths = << >>
         /\ outcome.comments = "failed" => extraction.top_comments = << >>
         /\ extraction.title = metadata.title

\* Every collector failed, the transcription and the frame extraction after
\* their downloads succeeded, and the record was returned.
C4_Witness ==
    /\ extraction /= NoExtraction
    /\ outcome.captions = "failed"
    /\ outcome.audio = "ok"
    /\ outcome.transcribe = "failed"
    /\ outcome.video = "ok"
    /\ outcome.frames = "failed"
    /\ outcome.comments = "failed"

\* C5: when extract_all finishes, each audio and video file it downloaded is
\* deleted, whatever the transcription, the frame extraction, the comment
\* fetch and the deletion of the other file did.
C5_Deleted ==
    extraction /= NoExtraction => \A f \in downloaded \ unlink_raises : f \notin files

StepOrder ==
    << "extract_video_id", "get_metadata", "get_captions", "download_audio",
       "transcribe_audio", "download_video", "extract_key_frames",
       "get_top_comments", "cleanup" >> \o RungNames

Stage(name) == CHOOSE i \in DOMAIN StepOrder : StepOrder[i] = name

Ran(name) == name \in Range(trace)

\* C6, as the handler is written: a completed request has run normalize,
\* metadata, captions (audio download and transcription when there are no
\* captions), video download and frame extraction, comments, cleanup and the
\* classification, in this order; its response carries the classified
\* category and the extraction record, and no category processor has run.
C6_Pipeline ==
    response.status = "completed" =>
        /\ \A i, j \in DOMAIN trace : i < j => Stage(trace[i]) < Stage(trace[j])
        /\ \A name \in { "extract_video_id", "get_metadata", "get_captions",
                         "download_video", "get_top_comments", "cleanup", "attempt_1" } :
             Ran(name)
        /\ Ran("download_audio") <=> ~Truthy(extraction.captions)
        /\ Ran("transcribe_audio") <=> outcome.audio = "ok"
        /\ Ran("extract_key_frames") <=> outcome.video = "ok"
        /\ response.category = result.category
        /\ response.metadata = metadata
        /\ response.result = extraction
        /\ ~Ran("process")
        /\ output = NoOutput

\* A completed request that had no captions and transcribed the audio.
C6_Witness ==
    /\ response.status = "completed"
    /\ Ran("transcribe_audio")
    /\ Ran("extract_key_frames")
    /\ extraction.transcript /= NONE
    /\ response.category = "vlog"

\* C6, as stated: a completed request has run the category processor after
\* the classification, and the processor's output is its result.
C6_ProcessorRuns ==
    response.status = "completed" =>
        /\ Ran("process")
        /\ "type" \in DOMAIN response.result

MovieListDone == proc = "movie_list" /\ ppc = "done"

\* C7: the output of MovieListProcessor.process has as many movies as the
\* model call gave, whatever the lookups did; an entry whose lookup gave
\* nothing is the raw title, year and rank with tmdb_found = false, and count
\* is the length of movies.
C7_Count ==
    MovieListDone =>
        /\ Len(output.movies) = Len(raw_movies)
        /\ output.count = Len(output.movies)
        /\ \A j \in DOMAIN raw_movies :
             /\ output.movies[j].rank = raw_movies[j].rank
             /\ lookups[j].movie = NoMovie =>
                  output.movies[j] = [title |-> raw_movies[j].title,
                                      year |-> raw_movies[j].year,
                                      rank |-> raw_movies[j].rank,
                                      tmdb_found |-> FALSE]

\* Two chunks of lookups, some found and some not, the last one not.
C7_Witness ==
    /\ MovieListDone
    /\ tmdb_key
    /\ Len(raw_movies) > chunk_size
    /\ \E j, k \in DOMAIN lookups : lookups[j].movie = NoMovie /\ lookups[k].movie /= NoMovie
    /\ lookups[Len(raw_movies)].movie = NoMovie

TypeTag == [recipe |-> "recipe", movie_list |-> "movie_list", default |-> "general"]

\* C8: each processor returns an object (it never raises) that carries the
\* processor's own type tag, "recipe", "movie_list" or "general", whatever
\* the model did.
C8_TypeTag ==
    ppc = "done" =>
        /\ "type" \in DOMAIN output
        /\ output.type = JStr(TypeTag[proc])

TotalFailure ==
    \/ ~model_reply.called
    \/ model_reply.kind \in {"api_error", "bad_json"}

ErrorMarker(out) ==
    \/ "error" \in DOMAIN out
    \/ "extraction_method" \in DOMAIN out /\ out.extraction_method = JStr("failed")

\* C9: on total failure (no credentials, the model call raising, JSON that
\* cannot be parsed) the output of each processor carries an error marker
\* beside its type tag.
C9_ErrorMarker ==
    (ppc = "done" /\ TotalFailure) => ErrorMarker(output)

Unparseable == { u \in Urls : extract_video_id(u).raised }

\* C10: a URL that extract_video_id cannot parse is answered with 400, and
\* neither the metadata provider, nor a collector, nor the classifier is
\* called for the request.
C10_BadUrl ==
    (url \in Unparseable /\ pc /= "extract_video_id") =>
        /\ response.status_code = 400
        /\ trace = << "extract_video_id" >>
        /\ metadata = NoMetadata
        /\ outcome = NoOutcome
        /\ files = {}
        /\ model_calls = << >>
        /\ result = NoResult

\* A URL of the right host whose identifier is too short was answered.
C10_Witness ==
    /\ url = "https://youtu.be/abc"
    /\ pc = "done"
    /\ response.status_code = 400

MetadataFailed == outcome.metadata \notin {"notrun", "ok"}

\* C11: every failure of the metadata provider (no or bad credential, quota,
\* network error, error status, no item for the video) ends the request with
\* status 500, and no collector and no classification runs after it.
C11_MetadataFatal ==
    MetadataFailed =>
        /\ response.status_code = 500
        /\ trace = << "extract_video_id", "get_metadata" >>
        /\ outcome.captions = "notrun"
        /\ outcome.audio = "notrun"
        /\ outcome.video = "notrun"
        /\ outcome.comments = "notrun"
        /\ model_calls = << >>
        /\ result = NoResult

\* C17: get_metadata raises ValueError when the provider returns no item for
\* the video and when it rejects the video ID (status 400), and
\* YouTubeAPIError for the other failures.
C17_MetadataExceptions ==
    /\ outcome.metadata \in {"no_items", "http_400"} => outcome.exception = "ValueError"
    /\ outcome.metadata \in {"no_key", "http_403", "http_500", "network"} =>
         outcome.exception = "YouTubeAPIError"

RuleApplied == result.model_used = "rule-based"

\* the search text: lower-cased title, description and first 1000 characters
\* of the captions, or of the transcript when there are no captions
RuleText ==
    LET spoken == IF Truthy(extraction.captions) THEN extraction.captions
                  ELSE IF Truthy(extraction.transcript) THEN extraction.transcript
                  ELSE ""
    IN  lower(extraction.title) \o " " \o lower(extraction.description) \o " "
            \o SubSeq(lower(spoken), 1, IF Len(spoken) < 1000 THEN Len(spoken) ELSE 1000)

\* the keywords of a tier of a category that are in the text
KeywordsIn(cat, tier, text) ==
    { i \in DOMAIN rules[cat][tier] : IsSubstring(rules[cat][tier][i], text) }

\* 5 for each strong, 2 for each medium, 1 for each weak keyword in the text
Weighted(cat, text) ==
    5 * Cardinality(KeywordsIn(cat, "strong", text))
    + 2 * Cardinality(KeywordsIn(cat, "medium", text))
    + Cardinality(KeywordsIn(cat, "weak", text))

Weights(text) == [ i \in DOMAIN RuleOrder |-> Weighted(RuleOrder[i], text) ]

\* C12: rule_based_classify returns "unknown" with confidence 0.3 (90/300),
\* the fixed reasoning and no alternatives exactly when no keyword of any
\* category is in the search text; otherwise it returns the category of the
\* maximum score, the first in table order among those tied at the maximum.
C12_Unknown ==
    RuleApplied =>
        LET w == Weights(RuleText)
            none == \A i \in DOMAIN w : w[i] = 0
        IN  /\ none <=> result.category = "unknown"
            /\ none =>
                 /\ result.confidence = 90
                 /\ result.reasoning = "No matching keywords found in rule-based classification"
                 /\ result.alternative_categories = << >>
            /\ ~none =>
                 \E i \in DOMAIN w :
                    /\ result.category = RuleOrder[i]
                    /\ \A j \in DOMAIN w : w[j] <= w[i]
                    /\ \A j \in DOMAIN w : j < i => w[j] < w[i]

\* "Tutorial" is a strong keyword of education and of tutorial: education,
\* the earlier of the two in the table, is returned.
C12_Witness ==
    /\ RuleApplied
    /\ extraction.title = "Tutorial"
    /\ extraction.description = ""
    /\ extraction.captions = NONE
    /\ extraction.transcript = NONE
    /\ result.category = "education"

\* C13: with a positive maximum score the confidence is min(0.6, score / 15),
\* score being the winner's sum of 5, 2 and 1 over its keywords present in
\* the text, each counted once: 5/15 for one strong keyword, 0.6 from a score
\* of 9 on, never more than 0.6.
C13_Confidence ==
    (RuleApplied /\ result.category /= "unknown") =>
        LET score == Weighted(result.category, RuleText)
        IN  /\ score > 0
            /\ result.keyword_score = score
            /\ result.confidence = (IF score >= 9 THEN 180 ELSE 20 * score)
            /\ result.confidence <= 180

\* One strong keyword that occurs three times in the title: 5/15.
C13_Witness ==
    /\ RuleApplied
    /\ extraction.title = "Recipe, recipe and recipe again"
    /\ extraction.description = ""
    /\ extraction.captions = NONE
    /\ extraction.transcript = NONE
    /\ result.category = "recipe"
    /\ result.confidence = 100

\* C18: with a positive maximum score alternative_categories is the
\* categories ranked second and third by score, ties in table order, those
\* of positive score only, in descending order, without the chosen category.
C18_Alternatives ==
    (RuleApplied /\ result.category /= "unknown") =>
        LET w == Weights(RuleText)
            alts == result.alternative_categories
            Ahead(i, j) == w[i] > w[j] \/ (w[i] = w[j] /\ i < j)
            Rank(i) == 1 + Cardinality({ j \in DOMAIN w : Ahead(j, i) })
            Ranked(r) == CHOOSE i \in DOMAIN w : Rank(i) = r
            Positive(r) == IF w[Ranked(r)] > 0 THEN << RuleOrder[Ranked(r)] >> ELSE << >>
        IN  /\ Len(alts) <= 2
            /\ result.category \notin Range(alts)
            /\ alts = Positive(2) \o Positive(3)
            /\ \A k \in DOMAIN alts : \E i \in DOMAIN w : RuleOrder[i] = alts[k] /\ w[i] > 0

\* travel scores 6, education and vlog 5 each: education, the earlier in the
\* table, is listed before vlog.
C18_Witness ==
    /\ RuleApplied
    /\ extraction.title = "Travel Vlog"
    /\ result.category = "travel"
    /\ result.alternative_categories = << "education", "vlog" >>

IdCharacters ==
    { "a", "b", "c", "d", "e", "f", "g", "h", "i", "j", "k", "l", "m", "n", "o",
      "p", "q", "r", "s", "t", "u", "v", "w", "x", "y", "z",
      "A", "B", "C", "D", "E", "F", "G", "H", "I", "J", "K", "L", "M", "N", "O",
      "P", "Q", "R", "S", "T", "U", "V", "W", "X", "Y", "Z",
      "0", "1", "2", "3", "4", "5", "6", "7", "8", "9", "_", "-" }

WellFormedId(id) ==
    /\ Len(id) = 11
    /\ \A i \in 1..Len(id) : SubSeq(id, i, i) \in IdCharacters

Normalized == pc /= "extract_video_id"

\* the identifier is returned from each of the three forms of a video's URL
C14_SameId ==
    \A id \in UrlIds :
        (WellFormedId(id) /\ url \in { "https://youtu.be/" \o id,
                                      "https://www.youtube.com/watch?v=" \o id,
                                      "https://www.youtube.com/shorts/" \o id })
            => video_id = id

\* what is returned is 11 characters of the alphabet and passes validate_video_id
C14_Shape == video_id /= NONE => (WellFormedId(video_id) /\ validate_video_id(video_id))

\* when nothing is returned ValueError was raised: the request is answered 400
C14_Raises == video_id = NONE => response.status_code = 400

\* C14: extract_video_id returns the same identifier for the youtu.be/ID,
\* watch?v=ID and shorts/ID forms of a URL; every value it returns is exactly
\* 11 characters of letters, digits, '_' and '-' and satisfies
\* validate_video_id; and it raises ValueError when it returns nothing.
C14_Identifier == Normalized => (C14_SameId /\ C14_Shape /\ C14_Raises)

Sentiments == { JStr("positive"), JStr("negative"), JStr("neutral") }

DefaultParsedObject ==
    /\ proc = "default"
    /\ ppc = "done"
    /\ model_reply.called
    /\ model_reply.kind = "object"

\* C15: for a model response that is a JSON object DefaultProcessor returns
\* (without raising) an object whose sentiment is "positive", "negative" or
\* "neutral" ("neutral" when the field is missing or anything else), whose
\* key_points and topics are lists (empty when missing or no list), and
\* whose summary and transcript are strings.
C15_Repair ==
    DefaultParsedObject =>
        LET given == model_reply.obj
        IN  /\ { "sentiment", "key_points", "topics", "summary", "transcript" }
                  \subseteq DOMAIN output
            /\ output["sentiment"] \in Sentiments
            /\ Get(given, "sentiment") \notin Sentiments => output["sentiment"] = JStr("neutral")
            /\ Get(given, "sentiment") \in Sentiments => output["sentiment"] = given["sentiment"]
            /\ \A k \in { "key_points", "topics" } :
                 /\ output[k].t = "list"
                 /\ Get(given, k).t /= "list" => output[k] = JList("[]")
                 /\ Get(given, k).t = "list" => output[k] = given[k]
            /\ output["summary"].t = "str"
            /\ output["transcript"].t = "str"

\* The object had a sentiment outside the three and key_points that is a
\* string, and was wrapped in a plain code fence.
C15_Witness ==
    /\ DefaultParsedObject
    /\ model_reply.fence = "plain"
    /\ Get(model_reply.obj, "sentiment") = JStr("mixed")
    /\ Get(model_reply.obj, "key_points") = JStr("one point")
    /\ output["sentiment"] = JStr("neutral")
    /\ output["key_points"] = JList("[]")

Present(text) == text /= NONE /\ text /= ""

WithCategory(resp, cat) == [resp EXCEPT !.category = cat]

\* what parsing does to each reply a rung can receive: an object naming a
\* category outside VideoCategory is parsed exactly when the same object with
\* a category of the enumeration is, and to the same result but for the
\* category, which is "unknown"
C19_Parse ==
    (pc \in { RungNames[k] : k \in 1..4 } /\ google_key) =>
        \A resp \in Responses :
            ReplyClass(resp) = "other_category" =>
                LET k == CHOOSE j \in 1..4 : pc = RungNames[j]
                    r == classify_video(google_key, RungModel[k], extraction, resp)
                    t == classify_video(google_key, RungModel[k], extraction,
                                        WithCategory(resp, "recipe"))
                IN  /\ r.raised = t.raised
                    /\ ~r.raised => r.value = [t.value EXCEPT !.category = "unknown"]

\* what the rung does with it: the "unknown" result is returned when its
\* confidence is above the rung's threshold; a reply that is no JSON makes
\* the rung raise, and the next rung is tried
C19_Step ==
    \A k \in 1..4 :
        (pc = RungNames[k] /\ pc' /= pc) =>
            /\ (last'.reply = "other_category" /\ ~last'.raised) =>
                 IF last'.confidence > RungThreshold[k]
                 THEN /\ pc' = "respond"
                      /\ result'.category = "unknown"
                      /\ result'.model_used = RungModel[k]
                 ELSE /\ pc' = RungNames[k + 1]
                      /\ result' = result
            /\ last'.reply = "bad_json" =>
                 /\ last'.raised
                 /\ pc' = RungNames[k + 1]
                 /\ result' = result

\* C19: a reply whose category is not one of the known ones is parsed with
\* category "unknown" and does not fail the rung, whose result is accepted
\* when its confidence is above the rung's threshold; a reply that is not
\* valid JSON fails the rung and the ladder moves to the next rung.
C19_UnknownCategory == [] C19_Parse /\ [][C19_Step]_vars

\* The second rung returned "unknown" for a category it did not know, after
\* the first rung got a reply that is no JSON.
C19_Witness ==
    /\ pc = "respond"
    /\ Len(model_calls) = 2
    /\ last.rung = 2
    /\ last.reply = "other_category"
    /\ result.category = "unknown"
    /\ result.model_used = PRIMARY_MODEL
    /\ result.confidence > Threshold2

\* the same JSON text without the code fence around it
Unfenced(resp) == [resp EXCEPT !.fence = "none"]

\* C20: a response that is a JSON object inside a markdown code fence, with
\* or without a language tag on the opening fence, is parsed to the same
\* ClassificationResult as the same object without the fence.
C20_FenceTransparent ==
    (/\ ParseDone
     /\ parse_args.response.kind = "object"
     /\ parse_args.response.fence /= "none") =>
        LET bare == parse_response(Unfenced(parse_args.response), parse_args.model_name,
                                   [video_id |-> parse_args.video_id])
        IN  ~bare.raised => parsed = bare

\* the part that holds: the fence whose opening line is ```json
C20_JsonFence ==
    (/\ ParseDone
     /\ parse_args.response.kind = "object"
     /\ parse_args.response.fence = "json") =>
        parsed = parse_response(Unfenced(parse_args.response), parse_args.model_name,
                                [video_id |-> parse_args.video_id])

\* C21: in the ClassificationResult classify_with_fallback returns, from an
\* AI rung or from the rule-based rung, no entry of alternative_categories
\* equals the result's category.
C21_AlternativesDistinct ==
    pc = "respond" =>
        \A i \in 1..Len(result.alternative_categories) :
            result.alternative_categories[i] /= result.category

\* the part that holds: the result of the rule-based rung
C21_RuleBasedDistinct ==
    (pc = "respond" /\ result.model_used = "rule-based") =>
        \A i \in 1..Len(result.alternative_categories) :
            result.alternative_categories[i] /= result.category

\* C22: the ClassificationResult classify_with_fallback returns has a
\* reasoning text that is not empty, whatever response an AI rung accepted.
C22_Reasoning == pc = "respond" => result.reasoning \notin {"", NONE, NULL, MISSING}

\* the part that holds: a response without the field gets the default text,
\* and the rule-based rung writes its own
C22_ReasoningDefault ==
    pc = "respond" =>
        /\ result.reasoning \notin {NONE, NULL, MISSING}
        /\ result.model_used = "rule-based" => result.reasoning /= ""

\* C23: the list of movies MovieListProcessor extracts from its model call
\* has at most 50 entries, however many the response lists.
C23_Cap == ppc = "extracted" => Len(raw_movies) <= 50

\* the part that holds: the extracted list has an entry for each entry of the
\* response that is a dict with a title, and no other
C23_OnePerEntry ==
    ppc = "extracted" =>
        /\ Len(raw_movies) <= model_reply.obj
        /\ \A i \in 1..Len(raw_movies) : raw_movies[i].rank \in 1..model_reply.obj

InFlight == { j \in DOMAIN lookups : lookups[j].state = "pending" }

\* at most chunk_size lookups are in flight, all of the current batch, and
\* every lookup of the batches before has completed
C24_Batch ==
    proc = "movie_list" =>
        /\ Cardinality(InFlight) <= 5
        /\ \A j \in InFlight :
             /\ chunk_start < j /\ j <= chunk_start + chunk_size
             /\ \A k \in 1..chunk_start : lookups[k].state = "done"
        /\ \A j \in DOMAIN lookups :
             (lookups[j].state /= "none") => j <= chunk_start + chunk_size
        /\ ppc = "done" => \A j \in DOMAIN raw_movies : lookups[j].state = "done"

\* a lookup starts once and completes once: it goes from not started to in
\* flight to completed, and never back
C24_Once ==
    \A j \in DOMAIN lookups :
        /\ j \in DOMAIN lookups'
        /\ lookups[j].state = "pending" => lookups'[j].state \in {"pending", "done"}
        /\ lookups[j].state = "done" => lookups'[j] = lookups[j]

\* C24: during the enrichment at most 5 lookups are in flight at any moment,
\* no lookup of a batch starts before every lookup of the previous batch has
\* completed, and every extracted entry is looked up exactly once.
C24_Lookups == [] C24_Batch /\ [][C24_Once]_vars

\* The second batch is in flight after the five lookups of the first ended.
C24_Witness ==
    /\ proc = "movie_list"
    /\ ppc = "gather"
    /\ chunk_start = chunk_size
    /\ Len(raw_movies) = chunk_size + 1
    /\ InFlight = {chunk_size + 1}
    /\ \A k \in 1..chunk_size : lookups[k].state = "done"

\* C25: process() emits the movies in the order of the extracted list,
\* whatever order the lookups of a batch complete in; each output entry,
\* enriched or raw, carries the rank extraction gave to the entry at the same
\* position; the rank of an entry is its place in the model's list, and the
\* ranks strictly increase along the output.
C25_Order ==
    MovieListDone =>
        /\ Len(output.movies) = Len(raw_movies)
        /\ \A j \in DOMAIN raw_movies :
             /\ output.movies[j].rank = raw_movies[j].rank
             /\ output.movies[j].title \in {raw_movies[j].title, "TMDB " \o raw_movies[j].title}
             /\ raw_movies[j].title = "Movie " \o ToString(raw_movies[j].rank)
        /\ \A j, k \in DOMAIN output.movies :
             j < k => output.movies[j].rank < output.movies[k].rank

\* A list in which the model's second entry was skipped, its first not found
\* and its third found.
C25_Witness ==
    /\ MovieListDone
    /\ Len(output.movies) >= 2
    /\ output.movies[1].rank = 1
    /\ output.movies[2].rank = 3
    /\ lookups[1].movie = NoMovie
    /\ lookups[2].movie /= NoMovie

Loaded == { i \in 1..Len(load_log) : load_log[i].ok }

\* the handle stays what the one successful load gave, and nothing is loaded
\* after it
C26_Handle ==
    /\ Cardinality(Loaded) <= 1
    /\ Loaded = {} <=> whisper_model = NoHandle
    /\ \A i \in Loaded :
         /\ i = Len(load_log)
         /\ whisper_model = Handle(load_log[i].name, i)

\* a call made when the handle is set returns it and loads nothing; a call
\* made when it is unset (whisper being there) tries to load, and leaves it
\* unset when the load fails
C26_Call ==
    LET n == Len(whisper_returned')
    IN  n = Len(whisper_returned) + 1 =>
            IF whisper_model /= NoHandle
            THEN /\ whisper_returned'[n] = Return(whisper_model)
                 /\ whisper_model' = whisper_model
                 /\ load_log' = load_log
            ELSE WHISPER_AVAILABLE =>
                   /\ Len(load_log') = Len(load_log) + 1
                   /\ IF load_log'[Len(load_log')].ok
                      THEN /\ whisper_model' /= NoHandle
                           /\ whisper_returned'[n] = Return(whisper_model')
                      ELSE /\ whisper_model' = NoHandle
                           /\ whisper_returned'[n].raised

\* C26: under sequential use the transcription model is loaded at most once
\* per process: after the first successful load every later get_whisper_model
\* call returns that same handle without loading again, and a failed load
\* leaves the handle unset, so that the next call tries to load again.
C26_LoadOnce == [] C26_Handle /\ [][C26_Call]_vars

\* Two loads failed, the third succeeded, and two more calls got its handle.
C26_Witness ==
    /\ Len(whisper_returned) = 5
    /\ Len(load_log) = 3
    /\ Loaded = {3}
    /\ whisper_returned[4] = Return(whisper_model)
    /\ whisper_returned[5] = Return(whisper_model)

\* a response without the confidence field is parsed with confidence 0.5,
\* if it is parsed at all, and the rung does not accept it
C27_Parse ==
    (pc \in { RungNames[k] : k \in 1..4 } /\ google_key) =>
        \A resp \in Responses :
            (resp.kind = "object" /\ resp.confidence.t = MISSING) =>
                LET k == CHOOSE j \in 1..4 : pc = RungNames[j]
                    r == classify_video(google_key, RungModel[k], extraction, resp)
                IN  /\ ~r.raised => r.value.confidence = 150
                    /\ ~Accepts(r, RungThreshold[k])

\* a rung whose result has confidence 0.5 hands over to the next rung
C27_Step ==
    \A k \in 1..4 :
        (pc = RungNames[k] /\ pc' /= pc /\ ~last'.raised /\ last'.confidence = 150) =>
            /\ pc' = RungNames[k + 1]
            /\ result' = result

\* the result of an AI rung that is returned has a confidence above 0.5; when
\* the last AI rung gave 0.5 or raised, the result is the rule-based one
C27_Returned ==
    pc = "respond" =>
        /\ result.model_used /= "rule-based" => result.confidence > 150
        /\ (last.rung = 4 /\ (last.raised \/ last.confidence = 150)) =>
             result.model_used = "rule-based"

\* C27: an AI response that omits the confidence field is given confidence
\* 0.5, which no rung accepts, every threshold being a strict comparison
\* against a value of at least 0.5; so when every AI response omits it the
\* returned result is the rule-based one.
C27_DefaultConfidence == [] (C27_Parse /\ C27_Returned) /\ [][C27_Step]_vars

\* All four rungs were called, the fourth gave 0.5, and the rule-based
\* result was returned.
C27_Witness ==
    /\ pc = "respond"
    /\ Len(model_calls) = 4
    /\ last.rung = 4
    /\ last.reply = "known_category"
    /\ ~last.raised
    /\ last.confidence = 150
    /\ result.model_used = "rule-based"

\* C28: rule_based_classify returns one of the twelve categories that have
\* an entry in its keyword table, or "unknown"; it never returns "news",
\* for which the table has no entry.
C28_TableCategories ==
    /\ Len(RuleOrder) = 12
    /\ DOMAIN rules = Range(RuleOrder)
    /\ Range(RuleOrder) = VideoCategory \ {"news", "unknown"}
    /\ RuleApplied =>
         /\ result.category \in Range(RuleOrder) \cup {"unknown"}
         /\ result.category /= "news"

\* A news video: its title has no keyword of the table.
C28_Witness ==
    /\ RuleApplied
    /\ extraction.title = "Breaking News: headlines tonight"
    /\ extraction.description = ""
    /\ extraction.captions = NONE
    /\ extraction.transcript = NONE
    /\ result.category = "unknown"

\* the cleanup step removes nothing but the audio and the video file of the
\* request, and no key frame image
C29_Step ==
    (pc = "cleanup" /\ pc' /= pc) =>
        /\ files \ files' \subseteq {audio_path, video_path} \cap {AUDIO, VIDEO}
        /\ \A i \in 1..Len(key_frames) : key_frames[i] \in files => key_frames[i] \in files'
        /\ extraction'.key_frame_paths = key_frames

\* while the classification runs every path of the record is a file
C29_Present ==
    (pc \in Range(RungNames) \cup {"respond"} /\ extraction /= NoExtraction) =>
        \A i \in 1..Len(extraction.key_frame_paths) : extraction.key_frame_paths[i] \in files

Using(r, path) ==
    \/ path = AUDIO /\ req[r].pc = "transcribe_audio" /\ req[r].audio_path = AUDIO
    \/ path = VIDEO /\ req[r].pc = "extract_key_frames" /\ req[r].video_path = VIDEO

\* no file is missing while a request is about to use it, and no request has
\* missed a transcript or its frames for want of the file it had downloaded
Undisturbed ==
    \A r \in DOMAIN req :
        /\ \A path \in {AUDIO, VIDEO} : Using(r, path) => path \in tmp_dir
        /\ req[r].missed = {}

\* C30: when two requests for the same video ID are in flight together, the
\* cleanup of one never deletes an audio or video file while the other is
\* between downloading that file and finishing its transcription or frame
\* extraction, and neither loses a collector result because of the other.
C30_Undisturbed == Undisturbed

\* the part that holds: two requests served by one event loop
C30_OneLoop == one_loop => Undisturbed
====
